---- MODULE Spec2Model ----
(***************************************************************************)
(* Chaining hash table of src/UnorderedMap.cpp (UnorderedMap<Key, Value>)  *)
(* and src/UnorderedSet.cpp (UnorderedSet<T>), with Key = T = Value = int. *)
(*                                                                         *)
(* A bucket index i of the C++ code (0-based) is position i + 1 of the     *)
(* sequence `buckets`.  max_load_factor_ is a float; the model keeps it as *)
(* an exact fraction <<numerator, denominator>> with a power-of-two        *)
(* denominator, so that every product, quotient and comparison the code    *)
(* makes on it is exact in IEEE single precision within the model bounds.  *)
(*                                                                         *)
(* Spec is a program that constructs one map or one set with a positive    *)
(* bucket count and calls it with positive load factors.  Every call is    *)
(* one step; `op` records the call with size() and bucket_count() as they  *)
(* were before it, `ret` what it returned.                                 *)
(***************************************************************************)
EXTENDS Integers, Sequences, FiniteSets, TLC

\* ------------------------------------------------------------------ bounds
\* no rehash is started that would make bucket_count_ larger than this
MaxBuckets == 10

\* the keys and the values the program passes to the container
Keys == 1..4
Values == 0..1

\* Value() of an int: zero-initialised
DefaultValue == 0
\* ghost marker: nothing written for a key
NoValue == DefaultValue - 1

\* bucket count of the default constructor
DefaultBucketCount == 10
\* bucket counts given to the explicit constructor
CtorBucketCounts == {1, 4}

\* max_load_factor_ values, as <<numerator, denominator>>
One == <<1, 1>>
LoadFactors == {<<1, 4>>, <<1, 2>>, <<3, 4>>, <<1, 1>>}

VARIABLES
    obj,                    \* the container the program constructed: "map" or
                            \*   "set"; "crashed" once the program has died
    buckets,                \* UnorderedMap: *buckets, a sequence of buckets,
                            \*   each a sequence of [key, value] pairs
    size_,
    bucket_count_,
    max_load_factor_,
    written,                \* ghost: the value last written for each key of the map
    set_buckets,            \* UnorderedSet: *buckets, each bucket a sequence of keys
    set_size_,
    set_bucket_count_,
    set_max_load_factor_,
    set_inserted,           \* ghost: the keys passed to insert of the set and
                            \*   not to erase since (none after clear)
    heap,                   \* SpecCopyMove: the bucket vectors made by `new`,
                            \*   in order of allocation; a pointer is a position
    objs,                   \* SpecCopyMove: the fields of each object
    bad_allocs,             \* ghost: the allocations that threw std::bad_alloc
    queues,                 \* SpecQueue: the fields of each Queue object
    queue_elems,            \* ghost: for each Queue, the elements pushed and
                            \*   not yet popped, oldest first
    deque,                  \* SpecDeque: the fields of the Deque object
    deque_elems,            \* ghost: the sequence the Deque should hold
    ptrs,                   \* SpecSharedPtr: the fields of each sharedptr
    counters,               \* SpecSharedPtr: the ints made by `new int(..)`
    resources,              \* SpecSharedPtr: the objects handed to a sharedptr
    pool,                   \* SpecPool: the fields and blocks of the MemoryPool
    handed_out,             \* ghost: the blocks allocate returned and
                            \*   deallocate has not got back
    op,                     \* the last call made on the container
    ret                     \* what that call returned

mapVars == <<buckets, size_, bucket_count_, max_load_factor_, written>>
setVars == <<set_buckets, set_size_, set_bucket_count_, set_max_load_factor_,
             set_inserted>>
objVars == <<heap, objs, bad_allocs>>
queueVars == <<queues, queue_elems>>
dequeVars == <<deque, deque_elems>>
ptrVars == <<ptrs, counters, resources>>
poolVars == <<pool, handed_out>>
libVars == <<queueVars, dequeVars, ptrVars, poolVars>>
vars == <<obj, mapVars, setVars, objVars, libVars, op, ret>>

\* ------------------------------------------------------- float arithmetic
\* a > b for fractions with positive denominators
FloatGT(a, b) == a[1] * b[2] > b[1] * a[2]

\* smallest integer >= n / f
CeilDiv(n, f) == ((n * f[2]) + f[1] - 1) \div f[1]

\* the call on record, with size() and bucket_count() as they were before it
Call(name, key, value, size, bucket_count) ==
    [name |-> name, key |-> key, value |-> value,
     pre_size |-> size, pre_bc |-> bucket_count]

\* all entries, in the order the range-for loops of rehash visit them
RECURSIVE Flatten(_)
Flatten(bkts) ==
    IF bkts = <<>> THEN <<>> ELSE Head(bkts) \o Flatten(Tail(bkts))

\* list::erase(it)
ListErase(list, it) == SubSeq(list, 1, it - 1) \o SubSeq(list, it + 1, Len(list))

\* std::hash<int>{}(key): the identity in libstdc++ and libc++
StdHash(key) == key

\* =========================================================== UnorderedMap
Map_hash(key, bucket_count) == StdHash(key) % bucket_count

\* mutant: only the front of the bucket is compared with the key
Map_find_in_bucket_front_only(bkts, key, bucket_index) ==
    LET bucket == bkts[bucket_index + 1]
    IN IF bucket # <<>> /\ bucket[1].key = key THEN 1 ELSE 0

\* position of the first pair of bucket `bucket_index` with key `key`,
\* 0 for bucket.end()
Map_find_in_bucket(bkts, key, bucket_index) ==
    LET bucket == bkts[bucket_index + 1]
        hits == {i \in 1..Len(bucket) : bucket[i].key = key}
    IN IF hits = {} THEN 0 ELSE CHOOSE i \in hits : \A j \in hits : i <= j

\* mutant: every bucket keeps its old index in the new vector
Map_rehash_keeps_index(bkts, new_bucket_count) ==
    [i \in 1..new_bucket_count |-> IF i <= Len(bkts) THEN bkts[i] ELSE <<>>]

\* mutant: the last pair visited is not copied
Map_rehash_drops_last(bkts, new_bucket_count) ==
    LET all == Flatten(bkts)
        pairs == SubSeq(all, 1, Len(all) - 1)
    IN [i \in 1..new_bucket_count |->
          SelectSeq(pairs,
                    LAMBDA pair : StdHash(pair.key) % new_bucket_count = i - 1)]

Map_rehash(bkts, new_bucket_count) ==
    LET pairs == Flatten(bkts)
    IN [i \in 1..new_bucket_count |->
          SelectSeq(pairs,
                    LAMBDA pair : StdHash(pair.key) % new_bucket_count = i - 1)]

\* size_ > bucket_count_ * max_load_factor_
Map_exceeds(size, bucket_count, mlf) == size * mlf[2] > bucket_count * mlf[1]

\* mutant: growth by one bucket
Map_growth_by_one(bucket_count) == bucket_count + 1

\* mutant: the rehash of an insert keeps the bucket count
Map_growth_none(bucket_count) == bucket_count

\* rehash(bucket_count_ * 2)
Map_growth(bucket_count) == bucket_count * 2

\* static_cast<float>(size_) / bucket_count_
Map_load_factor(size, bucket_count) == <<size, bucket_count>>

\* mutant: the + 1 is left out
Map_shrink_target_no_plus_one(size, mlf) == (size * mlf[2]) \div mlf[1]

\* size_ / max_load_factor_ + 1, a float, truncated to the size_t parameter
Map_shrink_target(size, mlf) == ((size * mlf[2]) \div mlf[1]) + 1

\* mutant: ++size_ is left out
Map_emplace_back_no_count(bkts, size, bucket_count, mlf, key, value) ==
    LET index == Map_hash(key, bucket_count)
        appended == [bkts EXCEPT ![index + 1] =
                        Append(@, [key |-> key, value |-> value])]
        rehashed == Map_exceeds(size + 1, bucket_count, mlf)
    IN [buckets |-> IF rehashed
                    THEN Map_rehash(appended, Map_growth(bucket_count))
                    ELSE appended,
        size_ |-> size,
        bucket_count_ |-> IF rehashed THEN Map_growth(bucket_count)
                          ELSE bucket_count,
        rehashed |-> rehashed]

\* emplace_back(key, value); ++size_; if (size_ > bucket_count_ *
\* max_load_factor_) rehash(bucket_count_ * 2): the fields afterwards
Map_emplace_back(bkts, size, bucket_count, mlf, key, value) ==
    LET index == Map_hash(key, bucket_count)
        appended == [bkts EXCEPT ![index + 1] =
                        Append(@, [key |-> key, value |-> value])]
        rehashed == Map_exceeds(size + 1, bucket_count, mlf)
    IN [buckets |-> IF rehashed
                    THEN Map_rehash(appended, Map_growth(bucket_count))
                    ELSE appended,
        size_ |-> size + 1,
        bucket_count_ |-> IF rehashed THEN Map_growth(bucket_count)
                          ELSE bucket_count,
        rehashed |-> rehashed]

\* operator[] returns list.back().value, where `list` refers to the bucket
\* of the vector that rehash has deleted: using that reference is undefined
\* behaviour.  The entry of the new vector is a copy made before, so a
\* store through the reference does not reach it; the program goes on
\* ("map") or dies on the freed list ("crashed").
Map_after_dangling == {"map", "crashed"}

\* what a read through the dangling reference can yield
Map_dangling_read == {DefaultValue} \cup Values

\* mutant: the value of a key that is present is not assigned
Map_insert_or_assign_keeps(key, value) ==
    LET index == Map_hash(key, bucket_count_)
        it == Map_find_in_bucket(buckets, key, index)
        r == Map_emplace_back(buckets, size_, bucket_count_, max_load_factor_,
                              key, value)
    IN /\ obj = "map"
       /\ IF it = 0
          THEN /\ r.bucket_count_ <= MaxBuckets
               /\ buckets' = r.buckets
               /\ size_' = r.size_
               /\ bucket_count_' = r.bucket_count_
          ELSE UNCHANGED <<buckets, size_, bucket_count_>>
       /\ written' = [written EXCEPT ![key] = value]
       /\ op' = Call("insert_or_assign", key, value, size_, bucket_count_)
       /\ ret' = "void"
       /\ UNCHANGED <<obj, max_load_factor_, setVars, objVars, libVars>>

Map_insert_or_assign(key, value) ==
    LET index == Map_hash(key, bucket_count_)
        it == Map_find_in_bucket(buckets, key, index)
        r == Map_emplace_back(buckets, size_, bucket_count_, max_load_factor_,
                              key, value)
    IN /\ obj = "map"
       /\ IF it = 0
          THEN /\ r.bucket_count_ <= MaxBuckets
               /\ buckets' = r.buckets
               /\ size_' = r.size_
               /\ bucket_count_' = r.bucket_count_
          ELSE /\ buckets' = [buckets EXCEPT ![index + 1][it].value = value]
               /\ UNCHANGED <<size_, bucket_count_>>
       /\ written' = [written EXCEPT ![key] = value]
       /\ op' = Call("insert_or_assign", key, value, size_, bucket_count_)
       /\ ret' = "void"
       /\ UNCHANGED <<obj, max_load_factor_, setVars, objVars, libVars>>

\* mutant: insert assigns the value of a key that is present
Map_insert_overwrites(key, value) ==
    LET index == Map_hash(key, bucket_count_)
        it == Map_find_in_bucket(buckets, key, index)
        r == Map_emplace_back(buckets, size_, bucket_count_, max_load_factor_,
                              key, value)
    IN /\ obj = "map"
       /\ IF it = 0
          THEN /\ r.bucket_count_ <= MaxBuckets
               /\ buckets' = r.buckets
               /\ size_' = r.size_
               /\ bucket_count_' = r.bucket_count_
               /\ ret' = TRUE
          ELSE /\ buckets' = [buckets EXCEPT ![index + 1][it].value = value]
               /\ ret' = FALSE
               /\ UNCHANGED <<size_, bucket_count_>>
       /\ written' = [written EXCEPT ![key] = value]
       /\ op' = Call("insert", key, value, size_, bucket_count_)
       /\ UNCHANGED <<obj, max_load_factor_, setVars, objVars, libVars>>

Map_insert(key, value) ==
    LET index == Map_hash(key, bucket_count_)
        it == Map_find_in_bucket(buckets, key, index)
        r == Map_emplace_back(buckets, size_, bucket_count_, max_load_factor_,
                              key, value)
    IN /\ obj = "map"
       /\ IF it = 0
          THEN /\ r.bucket_count_ <= MaxBuckets
               /\ buckets' = r.buckets
               /\ size_' = r.size_
               /\ bucket_count_' = r.bucket_count_
               /\ written' = [written EXCEPT ![key] = value]
               /\ ret' = TRUE
          ELSE /\ ret' = FALSE
               /\ UNCHANGED <<buckets, size_, bucket_count_, written>>
       /\ op' = Call("insert", key, value, size_, bucket_count_)
       /\ UNCHANGED <<obj, max_load_factor_, setVars, objVars, libVars>>

\* mutant: the front of the bucket is erased, whichever pair was found
Map_erase_front(key) ==
    LET index == Map_hash(key, bucket_count_)
        it == Map_find_in_bucket(buckets, key, index)
    IN /\ obj = "map"
       /\ IF it # 0
          THEN /\ buckets' = [buckets EXCEPT ![index + 1] = ListErase(@, 1)]
               /\ size_' = size_ - 1
               /\ written' = [written EXCEPT ![key] = NoValue]
               /\ ret' = TRUE
          ELSE /\ ret' = FALSE
               /\ UNCHANGED <<buckets, size_, written>>
       /\ op' = Call("erase", key, 0, size_, bucket_count_)
       /\ UNCHANGED <<obj, bucket_count_, max_load_factor_, setVars, objVars,
                      libVars>>

\* mutant: --size_ is left out
Map_erase_keeps_size(key) ==
    LET index == Map_hash(key, bucket_count_)
        it == Map_find_in_bucket(buckets, key, index)
    IN /\ obj = "map"
       /\ IF it # 0
          THEN /\ buckets' = [buckets EXCEPT ![index + 1] = ListErase(@, it)]
               /\ written' = [written EXCEPT ![key] = NoValue]
               /\ ret' = TRUE
               /\ UNCHANGED size_
          ELSE /\ ret' = FALSE
               /\ UNCHANGED <<buckets, size_, written>>
       /\ op' = Call("erase", key, 0, size_, bucket_count_)
       /\ UNCHANGED <<obj, bucket_count_, max_load_factor_, setVars, objVars,
                      libVars>>

Map_erase(key) ==
    LET index == Map_hash(key, bucket_count_)
        it == Map_find_in_bucket(buckets, key, index)
    IN /\ obj = "map"
       /\ IF it # 0
          THEN /\ buckets' = [buckets EXCEPT ![index + 1] = ListErase(@, it)]
               /\ size_' = size_ - 1
               /\ written' = [written EXCEPT ![key] = NoValue]
               /\ ret' = TRUE
          ELSE /\ ret' = FALSE
               /\ UNCHANGED <<buckets, size_, written>>
       /\ op' = Call("erase", key, 0, size_, bucket_count_)
       /\ UNCHANGED <<obj, bucket_count_, max_load_factor_, setVars, objVars,
                      libVars>>

\* mutant: any pair in the bucket of the key counts as a hit
Map_contains_any_pair(key) ==
    LET index == Map_hash(key, bucket_count_)
    IN /\ obj = "map"
       /\ ret' = (buckets[index + 1] # <<>>)
       /\ op' = Call("contains", key, 0, size_, bucket_count_)
       /\ UNCHANGED <<obj, mapVars, setVars, objVars, libVars>>

\* mutant: a lookup of an absent key stores the key as operator[] does
Map_contains_stores_default(key) ==
    LET index == Map_hash(key, bucket_count_)
        it == Map_find_in_bucket(buckets, key, index)
    IN /\ obj = "map"
       /\ ret' = (it # 0)
       /\ buckets' = IF it # 0 THEN buckets
                     ELSE [buckets EXCEPT ![index + 1] =
                             Append(@, [key |-> key, value |-> DefaultValue])]
       /\ op' = Call("contains", key, 0, size_, bucket_count_)
       /\ UNCHANGED <<obj, size_, bucket_count_, max_load_factor_, written,
                      setVars, objVars, libVars>>

Map_contains(key) ==
    LET index == Map_hash(key, bucket_count_)
        it == Map_find_in_bucket(buckets, key, index)
    IN /\ obj = "map"
       /\ ret' = (it # 0)
       /\ op' = Call("contains", key, 0, size_, bucket_count_)
       /\ UNCHANGED <<obj, mapVars, setVars, objVars, libVars>>

\* size(), empty(), bucket_count(), load_factor()
Map_size ==
    /\ obj = "map"
    /\ ret' = size_
    /\ op' = Call("size", 0, 0, size_, bucket_count_)
    /\ UNCHANGED <<obj, mapVars, setVars, objVars, libVars>>

Map_empty ==
    /\ obj = "map"
    /\ ret' = (size_ = 0)
    /\ op' = Call("empty", 0, 0, size_, bucket_count_)
    /\ UNCHANGED <<obj, mapVars, setVars, objVars, libVars>>

Map_bucket_count ==
    /\ obj = "map"
    /\ ret' = bucket_count_
    /\ op' = Call("bucket_count", 0, 0, size_, bucket_count_)
    /\ UNCHANGED <<obj, mapVars, setVars, objVars, libVars>>

Map_load_factor_get ==
    /\ obj = "map"
    /\ ret' = Map_load_factor(size_, bucket_count_)
    /\ op' = Call("load_factor", 0, 0, size_, bucket_count_)
    /\ UNCHANGED <<obj, mapVars, setVars, objVars, libVars>>

\* `map[key]` read by the caller: operator[] and the load through the
\* reference it returned
Map_subscript(key) ==
    LET index == Map_hash(key, bucket_count_)
        it == Map_find_in_bucket(buckets, key, index)
        r == Map_emplace_back(buckets, size_, bucket_count_, max_load_factor_,
                              key, DefaultValue)
    IN /\ obj = "map"
       /\ IF it # 0
          THEN /\ ret' = buckets[index + 1][it].value
               /\ UNCHANGED <<obj, buckets, size_, bucket_count_, written>>
          ELSE /\ r.bucket_count_ <= MaxBuckets
               /\ buckets' = r.buckets
               /\ size_' = r.size_
               /\ bucket_count_' = r.bucket_count_
               /\ written' = [written EXCEPT ![key] = DefaultValue]
               /\ IF r.rehashed
                  THEN /\ obj' \in Map_after_dangling
                       /\ ret' \in Map_dangling_read
                  ELSE /\ obj' = obj
                       /\ ret' = DefaultValue
       /\ op' = Call("subscript", key, 0, size_, bucket_count_)
       /\ UNCHANGED <<max_load_factor_, setVars, objVars, libVars>>

\* `map[key] = value`: operator[] and the caller's store through the
\* reference it returned
Map_subscript_assign(key, value) ==
    LET index == Map_hash(key, bucket_count_)
        it == Map_find_in_bucket(buckets, key, index)
        r == Map_emplace_back(buckets, size_, bucket_count_, max_load_factor_,
                              key, DefaultValue)
    IN /\ obj = "map"
       /\ IF it # 0
          THEN /\ buckets' = [buckets EXCEPT ![index + 1][it].value = value]
               /\ UNCHANGED <<obj, size_, bucket_count_>>
          ELSE /\ r.bucket_count_ <= MaxBuckets
               /\ size_' = r.size_
               /\ bucket_count_' = r.bucket_count_
               /\ IF r.rehashed
                  THEN /\ obj' \in Map_after_dangling
                       /\ buckets' = r.buckets
                  ELSE /\ obj' = obj
                       /\ buckets' = [r.buckets EXCEPT
                             ![index + 1][Len(r.buckets[index + 1])].value = value]
       /\ written' = [written EXCEPT ![key] = value]
       /\ op' = Call("subscript_assign", key, value, size_, bucket_count_)
       /\ ret' = "void"
       /\ UNCHANGED <<max_load_factor_, setVars, objVars, libVars>>

\* mutant: size_ is reset and the buckets are left as they are
Map_clear_size_only ==
    /\ obj = "map"
    /\ size_' = 0
    /\ written' = [k \in Keys |-> NoValue]
    /\ op' = Call("clear", 0, 0, size_, bucket_count_)
    /\ ret' = "void"
    /\ UNCHANGED <<obj, buckets, bucket_count_, max_load_factor_, setVars, objVars,
                   libVars>>

Map_clear ==
    /\ obj = "map"
    /\ buckets' = [i \in 1..Len(buckets) |-> <<>>]
    /\ size_' = 0
    /\ written' = [k \in Keys |-> NoValue]
    /\ op' = Call("clear", 0, 0, size_, bucket_count_)
    /\ ret' = "void"
    /\ UNCHANGED <<obj, bucket_count_, max_load_factor_, setVars, objVars,
                   libVars>>

\* mutant: the factor is stored and no rehash is made
Map_max_load_factor_store_only(mlf) ==
    /\ obj = "map"
    /\ max_load_factor_' = mlf
    /\ op' = Call("max_load_factor", 0, 0, size_, bucket_count_)
    /\ ret' = "void"
    /\ UNCHANGED <<obj, buckets, bucket_count_, size_, written, setVars, objVars,
                   libVars>>

\* mutant: rehash is called whatever the load factor is
Map_max_load_factor_always_rehashes(mlf) ==
    /\ obj = "map"
    /\ max_load_factor_' = mlf
    /\ Map_shrink_target(size_, mlf) <= MaxBuckets
    /\ buckets' = Map_rehash(buckets, Map_shrink_target(size_, mlf))
    /\ bucket_count_' = Map_shrink_target(size_, mlf)
    /\ op' = Call("max_load_factor", 0, 0, size_, bucket_count_)
    /\ ret' = "void"
    /\ UNCHANGED <<obj, size_, written, setVars, objVars, libVars>>

\* mutant: the rehash makes one bucket per entry
Map_max_load_factor_bucket_per_entry(mlf) ==
    /\ obj = "map"
    /\ max_load_factor_' = mlf
    /\ IF FloatGT(Map_load_factor(size_, bucket_count_), mlf)
       THEN /\ buckets' = Map_rehash(buckets, size_)
            /\ bucket_count_' = size_
       ELSE UNCHANGED <<buckets, bucket_count_>>
    /\ op' = Call("max_load_factor", 0, 0, size_, bucket_count_)
    /\ ret' = "void"
    /\ UNCHANGED <<obj, size_, written, setVars, objVars, libVars>>

Map_max_load_factor(mlf) ==
    /\ obj = "map"
    /\ max_load_factor_' = mlf
    /\ IF FloatGT(Map_load_factor(size_, bucket_count_), mlf)
       THEN /\ Map_shrink_target(size_, mlf) <= MaxBuckets
            /\ buckets' = Map_rehash(buckets, Map_shrink_target(size_, mlf))
            /\ bucket_count_' = Map_shrink_target(size_, mlf)
       ELSE UNCHANGED <<buckets, bucket_count_>>
    /\ op' = Call("max_load_factor", 0, 0, size_, bucket_count_)
    /\ ret' = "void"
    /\ UNCHANGED <<obj, size_, written, setVars, objVars, libVars>>

\* =========================================================== UnorderedSet
Set_hash(key, bucket_count) == StdHash(key) % bucket_count

\* std::find(bucket.begin(), bucket.end(), key): position, 0 for end()
Set_find_in_bucket(bkts, key, bucket_index) ==
    LET bucket == bkts[bucket_index + 1]
        hits == {i \in 1..Len(bucket) : bucket[i] = key}
    IN IF hits = {} THEN 0 ELSE CHOOSE i \in hits : \A j \in hits : i <= j

Set_rehash(bkts, new_bucket_count) ==
    LET elements == Flatten(bkts)
    IN [i \in 1..new_bucket_count |->
          SelectSeq(elements,
                    LAMBDA element : StdHash(element) % new_bucket_count = i - 1)]

Set_exceeds(size, bucket_count, mlf) == size * mlf[2] > bucket_count * mlf[1]

\* mutant: growth by one bucket
Set_growth_by_one(bucket_count) == bucket_count + 1

Set_growth(bucket_count) == bucket_count * 2

Set_load_factor(size, bucket_count) == <<size, bucket_count>>

Set_shrink_target(size, mlf) == ((size * mlf[2]) \div mlf[1]) + 1

\* mutant: a key already stored is counted again
Set_insert_counts_duplicate(key) ==
    LET index == Set_hash(key, set_bucket_count_)
        it == Set_find_in_bucket(set_buckets, key, index)
        appended == [set_buckets EXCEPT ![index + 1] = Append(@, key)]
    IN /\ obj = "set"
       /\ set_size_' = set_size_ + 1
       /\ IF it = 0
          THEN /\ IF Set_exceeds(set_size_ + 1, set_bucket_count_,
                                 set_max_load_factor_)
                  THEN /\ Set_growth(set_bucket_count_) <= MaxBuckets
                       /\ set_buckets' =
                             Set_rehash(appended, Set_growth(set_bucket_count_))
                       /\ set_bucket_count_' = Set_growth(set_bucket_count_)
                  ELSE /\ set_buckets' = appended
                       /\ UNCHANGED set_bucket_count_
               /\ ret' = TRUE
          ELSE /\ ret' = FALSE
               /\ UNCHANGED <<set_buckets, set_bucket_count_>>
       /\ set_inserted' = set_inserted \cup {key}
       /\ op' = Call("insert", key, 0, set_size_, set_bucket_count_)
       /\ UNCHANGED <<obj, set_max_load_factor_, mapVars, objVars, libVars>>

Set_insert(key) ==
    LET index == Set_hash(key, set_bucket_count_)
        it == Set_find_in_bucket(set_buckets, key, index)
        appended == [set_buckets EXCEPT ![index + 1] = Append(@, key)]
    IN /\ obj = "set"
       /\ IF it = 0
          THEN /\ set_size_' = set_size_ + 1
               /\ IF Set_exceeds(set_size_ + 1, set_bucket_count_,
                                 set_max_load_factor_)
                  THEN /\ Set_growth(set_bucket_count_) <= MaxBuckets
                       /\ set_buckets' =
                             Set_rehash(appended, Set_growth(set_bucket_count_))
                       /\ set_bucket_count_' = Set_growth(set_bucket_count_)
                  ELSE /\ set_buckets' = appended
                       /\ UNCHANGED set_bucket_count_
               /\ ret' = TRUE
          ELSE /\ ret' = FALSE
               /\ UNCHANGED <<set_buckets, set_size_, set_bucket_count_>>
       /\ set_inserted' = set_inserted \cup {key}
       /\ op' = Call("insert", key, 0, set_size_, set_bucket_count_)
       /\ UNCHANGED <<obj, set_max_load_factor_, mapVars, objVars, libVars>>

Set_erase(key) ==
    LET index == Set_hash(key, set_bucket_count_)
        it == Set_find_in_bucket(set_buckets, key, index)
    IN /\ obj = "set"
       /\ IF it # 0
          THEN /\ set_buckets' =
                     [set_buckets EXCEPT ![index + 1] = ListErase(@, it)]
               /\ set_size_' = set_size_ - 1
               /\ ret' = TRUE
          ELSE /\ ret' = FALSE
               /\ UNCHANGED <<set_buckets, set_size_>>
       /\ set_inserted' = set_inserted \ {key}
       /\ op' = Call("erase", key, 0, set_size_, set_bucket_count_)
       /\ UNCHANGED <<obj, set_bucket_count_, set_max_load_factor_, mapVars, objVars,
                      libVars>>

Set_contains(key) ==
    LET index == Set_hash(key, set_bucket_count_)
        it == Set_find_in_bucket(set_buckets, key, index)
    IN /\ obj = "set"
       /\ ret' = (it # 0)
       /\ op' = Call("contains", key, 0, set_size_, set_bucket_count_)
       /\ UNCHANGED <<obj, mapVars, setVars, objVars, libVars>>

\* size(), empty(), bucket_count(), load_factor()
Set_size ==
    /\ obj = "set"
    /\ ret' = set_size_
    /\ op' = Call("size", 0, 0, set_size_, set_bucket_count_)
    /\ UNCHANGED <<obj, mapVars, setVars, objVars, libVars>>

Set_empty ==
    /\ obj = "set"
    /\ ret' = (set_size_ = 0)
    /\ op' = Call("empty", 0, 0, set_size_, set_bucket_count_)
    /\ UNCHANGED <<obj, mapVars, setVars, objVars, libVars>>

Set_bucket_count ==
    /\ obj = "set"
    /\ ret' = set_bucket_count_
    /\ op' = Call("bucket_count", 0, 0, set_size_, set_bucket_count_)
    /\ UNCHANGED <<obj, mapVars, setVars, objVars, libVars>>

Set_load_factor_get ==
    /\ obj = "set"
    /\ ret' = Set_load_factor(set_size_, set_bucket_count_)
    /\ op' = Call("load_factor", 0, 0, set_size_, set_bucket_count_)
    /\ UNCHANGED <<obj, mapVars, setVars, objVars, libVars>>

Set_clear ==
    /\ obj = "set"
    /\ set_buckets' = [i \in 1..Len(set_buckets) |-> <<>>]
    /\ set_size_' = 0
    /\ set_inserted' = {}
    /\ op' = Call("clear", 0, 0, set_size_, set_bucket_count_)
    /\ ret' = "void"
    /\ UNCHANGED <<obj, set_bucket_count_, set_max_load_factor_, mapVars, objVars,
                   libVars>>

Set_max_load_factor(mlf) ==
    /\ obj = "set"
    /\ set_max_load_factor_' = mlf
    /\ IF FloatGT(Set_load_factor(set_size_, set_bucket_count_), mlf)
       THEN /\ Set_shrink_target(set_size_, mlf) <= MaxBuckets
            /\ set_buckets' =
                  Set_rehash(set_buckets, Set_shrink_target(set_size_, mlf))
            /\ set_bucket_count_' = Set_shrink_target(set_size_, mlf)
       ELSE UNCHANGED <<set_buckets, set_bucket_count_>>
    /\ op' = Call("max_load_factor", 0, 0, set_size_, set_bucket_count_)
    /\ ret' = "void"
    /\ UNCHANGED <<obj, set_size_, set_inserted, mapVars, objVars, libVars>>

\* ------------------------------------------------------------ the program
\* no object: the fields of the class the program did not construct
NoMap ==
    /\ buckets = <<>>
    /\ size_ = 0
    /\ bucket_count_ = 0
    /\ max_load_factor_ = One
    /\ written = [k \in Keys |-> NoValue]

NoSet ==
    /\ set_buckets = <<>>
    /\ set_size_ = 0
    /\ set_bucket_count_ = 0
    /\ set_max_load_factor_ = One
    /\ set_inserted = {}

\* the objects of SpecCopyMove; the programs of Spec and SpecAnyArgs have
\* the one object held in the variables above
ObjNames == 1..2

nullptr == 0

Unborn ==
    [state |-> "unborn", buckets |-> nullptr, size_ |-> 0, bucket_count_ |-> 0,
     max_load_factor_ |-> One]

\* the classes beside the hash tables: Queue, Deque, sharedptr, MemoryPool.
\* Each has a program of its own; in the programs of the others its
\* variables keep the values below.
QueueNames == 1..2
QueueUnborn ==
    [state |-> "unborn", data |-> <<>>, size_ |-> 0, capacity_ |-> 0,
     front_ |-> 0, rear_ |-> 0]
NoQueue ==
    /\ queues = [q \in QueueNames |-> QueueUnborn]
    /\ queue_elems = [q \in QueueNames |-> <<>>]
NoDeque ==
    /\ deque = [data |-> <<>>, size_ |-> 0, capacity_ |-> 0, front_ |-> 0,
                rear_ |-> 0]
    /\ deque_elems = <<>>
PtrNames == 1..3
PtrUnborn == [state |-> "unborn", res |-> nullptr, counter |-> nullptr]
NoPtr ==
    /\ ptrs = [p \in PtrNames |-> PtrUnborn]
    /\ counters = <<>>
    /\ resources = <<>>
NoPool ==
    /\ pool = [pool_size_ |-> 0, free_list_ |-> nullptr, next |-> <<>>]
    /\ handed_out = {}
NoLibs == NoQueue /\ NoDeque /\ NoPtr /\ NoPool

NoObjects ==
    /\ heap = <<>>
    /\ objs = [o \in ObjNames |-> Unborn]
    /\ bad_allocs = 0
    /\ NoLibs

\* mutant: the explicit constructor makes the default number of buckets
Map_ctor_ignores_argument(bucket_count) ==
    /\ obj = "map"
    /\ buckets = [i \in 1..DefaultBucketCount |-> <<>>]
    /\ size_ = 0
    /\ bucket_count_ = DefaultBucketCount
    /\ max_load_factor_ = One
    /\ written = [k \in Keys |-> NoValue]
    /\ NoSet
    /\ NoObjects
    /\ op = Call("ctor", 0, 0, 0, bucket_count)
    /\ ret = "void"

\* UnorderedMap() and UnorderedMap(size_t bucket_count)
Map_ctor(bucket_count) ==
    /\ obj = "map"
    /\ buckets = [i \in 1..bucket_count |-> <<>>]
    /\ size_ = 0
    /\ bucket_count_ = bucket_count
    /\ max_load_factor_ = One
    /\ written = [k \in Keys |-> NoValue]
    /\ NoSet
    /\ NoObjects
    /\ op = Call("ctor", 0, 0, 0, bucket_count)
    /\ ret = "void"

\* UnorderedSet() and UnorderedSet(size_t bucket_count)
Set_ctor(bucket_count) ==
    /\ obj = "set"
    /\ set_buckets = [i \in 1..bucket_count |-> <<>>]
    /\ set_size_ = 0
    /\ set_bucket_count_ = bucket_count
    /\ set_max_load_factor_ = One
    /\ set_inserted = {}
    /\ NoMap
    /\ NoObjects
    /\ op = Call("ctor", 0, 0, 0, bucket_count)
    /\ ret = "void"

Init ==
    \E n \in CtorBucketCounts \cup {DefaultBucketCount} :
        Map_ctor(n) \/ Set_ctor(n)

Next ==
    \/ \E k \in Keys, v \in Values : Map_insert_or_assign(k, v)
    \/ \E k \in Keys, v \in Values : Map_insert(k, v)
    \/ \E k \in Keys : Map_erase(k)
    \/ \E k \in Keys : Map_contains(k)
    \/ Map_size
    \/ Map_empty
    \/ Map_bucket_count
    \/ Map_load_factor_get
    \/ \E k \in Keys : Map_subscript(k)
    \/ \E k \in Keys, v \in Values : Map_subscript_assign(k, v)
    \/ Map_clear
    \/ \E f \in LoadFactors : Map_max_load_factor(f)
    \/ \E k \in Keys : Set_insert(k)
    \/ \E k \in Keys : Set_erase(k)
    \/ \E k \in Keys : Set_contains(k)
    \/ Set_size
    \/ Set_empty
    \/ Set_bucket_count
    \/ Set_load_factor_get
    \/ Set_clear
    \/ \E f \in LoadFactors : Set_max_load_factor(f)

Spec == Init /\ [][Next]_vars

\* --------------------------------------- the program, arguments unchecked
\* The constructors and max_load_factor take whatever they are given:
\* SpecAnyArgs is a program that also passes a bucket count of 0 and load
\* factors that are not positive.

\* bucket counts given to the explicit constructor, 0 among them
AnyBucketCounts == CtorBucketCounts \cup {0}

\* load factors 0.0 and -1.0
NonPositiveLoadFactors == {<<0, 1>>, <<-1, 1>>}

\* hash(key) with bucket_count_ == 0: `% bucket_count_` divides by zero,
\* undefined behaviour.  Where the division traps the program dies of it
\* (x86: SIGFPE); where it yields a number, (*buckets)[index] is an element
\* of an empty vector and the scan of that bucket dies.  No build gets past
\* the call.
Map_hash_by_zero(name, key) ==
    /\ obj = "map"
    /\ bucket_count_ = 0
    /\ obj' = "crashed"
    /\ op' = Call(name, key, 0, size_, bucket_count_)
    /\ ret' = "none"
    /\ UNCHANGED <<mapVars, setVars, objVars, libVars>>

\* max_load_factor(mlf) with mlf <= 0.  The factor is stored first.  If
\* load_factor() > mlf, the argument of rehash is size_ / mlf + 1: 1 when
\* size_ is 0 (and mlf < 0); otherwise a float that is below 1, negative
\* or infinite, whose conversion to size_t is 0 or undefined, and
\* rehash(0) divides by zero for the first pair it moves: the program dies.
\* With bucket_count_ == 0 load_factor() is 0.0 / 0 = NaN and no
\* comparison with it is true.
Map_max_load_factor_nonpositive(mlf) ==
    /\ obj = "map"
    /\ max_load_factor_' = mlf
    /\ IF FloatGT(Map_load_factor(size_, bucket_count_), mlf)
       THEN IF size_ = 0
            THEN /\ buckets' = Map_rehash(buckets, 1)
                 /\ bucket_count_' = 1
                 /\ obj' = obj
            ELSE /\ obj' = "crashed"
                 /\ UNCHANGED <<buckets, bucket_count_>>
       ELSE UNCHANGED <<obj, buckets, bucket_count_>>
    /\ op' = Call("max_load_factor", 0, 0, size_, bucket_count_)
    /\ ret' = "void"
    /\ UNCHANGED <<size_, written, setVars, objVars, libVars>>

Set_hash_by_zero(name, key) ==
    /\ obj = "set"
    /\ set_bucket_count_ = 0
    /\ obj' = "crashed"
    /\ op' = Call(name, key, 0, set_size_, set_bucket_count_)
    /\ ret' = "none"
    /\ UNCHANGED <<mapVars, setVars, objVars, libVars>>

Set_max_load_factor_nonpositive(mlf) ==
    /\ obj = "set"
    /\ set_max_load_factor_' = mlf
    /\ IF FloatGT(Set_load_factor(set_size_, set_bucket_count_), mlf)
       THEN IF set_size_ = 0
            THEN /\ set_buckets' = Set_rehash(set_buckets, 1)
                 /\ set_bucket_count_' = 1
                 /\ obj' = obj
            ELSE /\ obj' = "crashed"
                 /\ UNCHANGED <<set_buckets, set_bucket_count_>>
       ELSE UNCHANGED <<obj, set_buckets, set_bucket_count_>>
    /\ op' = Call("max_load_factor", 0, 0, set_size_, set_bucket_count_)
    /\ ret' = "void"
    /\ UNCHANGED <<set_size_, set_inserted, mapVars, objVars, libVars>>

InitAnyArgs ==
    \E n \in AnyBucketCounts : Map_ctor(n) \/ Set_ctor(n)

NextAnyArgs ==
    \/ \E k \in Keys, v \in Values : bucket_count_ # 0 /\ Map_insert(k, v)
    \/ \E k \in Keys : bucket_count_ # 0 /\ Map_erase(k)
    \/ \E k \in Keys : bucket_count_ # 0 /\ Map_contains(k)
    \/ \E k \in Keys : \E name \in {"insert", "erase", "contains"} :
          Map_hash_by_zero(name, k)
    \/ Map_clear
    \/ \E f \in LoadFactors : Map_max_load_factor(f)
    \/ \E f \in NonPositiveLoadFactors : Map_max_load_factor_nonpositive(f)
    \/ \E k \in Keys : set_bucket_count_ # 0 /\ Set_insert(k)
    \/ \E k \in Keys : set_bucket_count_ # 0 /\ Set_erase(k)
    \/ \E k \in Keys : set_bucket_count_ # 0 /\ Set_contains(k)
    \/ \E k \in Keys : \E name \in {"insert", "erase", "contains"} :
          Set_hash_by_zero(name, k)
    \/ Set_clear
    \/ \E f \in LoadFactors : Set_max_load_factor(f)
    \/ \E f \in NonPositiveLoadFactors : Set_max_load_factor_nonpositive(f)

SpecAnyArgs == InitAnyArgs /\ [][NextAnyArgs]_vars

\* ------------------------------------------- the program, several objects
\* SpecCopyMove is a program that constructs, copies, moves, assigns, calls
\* and destroys up to two maps, or two sets.  `heap` holds what each
\* `new std::vector<...>` returned: the vector and how often `delete` was
\* applied to it (once a vector is deleted its lists are gone).

\* no `new` is made once the heap holds this many vectors
MaxCells == 4

\* bucket counts given to the explicit constructor
ObjBucketCounts == {1}
\* keys and values passed to the objects
ObjKeys == 1..2
ObjValues == {1}
\* load factors passed to max_load_factor of the objects
ObjLoadFactors == {<<1, 2>>}

\* the call on record: `dst` is the object called (*this), `src` the other
\* object of a copy or a move
ObjCall(name, dst, src) == [name |-> name, dst |-> dst, src |-> src]

\* new std::vector<...>(vec): the heap afterwards; the pointer returned is
\* Len(h) + 1
New(h, vec) == Append(h, [vec |-> vec, frees |-> 0])

\* delete p
Delete(h, p) ==
    IF p = nullptr THEN h
    ELSE [h EXCEPT ![p] = [vec |-> <<>>, frees |-> @.frees + 1]]

\* the fields of a moved-from object: other.buckets = nullptr;
\* other.size_ = 0; other.bucket_count_ = 0
MovedFrom(ob) ==
    [ob EXCEPT !.buckets = nullptr, !.size_ = 0, !.bucket_count_ = 0]

\* an object whose destructor has run
Destroyed == [Unborn EXCEPT !.state = "destroyed"]

\* a call that dereferences `buckets == nullptr` or divides by
\* bucket_count_ == 0 (an object that was moved from): undefined behaviour,
\* the program dies (segmentation fault, SIGFPE)
ObjCrash(name, dst, src) ==
    /\ obj' = "crashed"
    /\ op' = ObjCall(name, dst, src)
    /\ ret' = "none"
    /\ UNCHANGED <<objVars, mapVars, setVars, libVars>>

\* UnorderedMap(size_t bucket_count), UnorderedSet(size_t bucket_count)
Ctor(o, bucket_count) ==
    /\ objs[o].state = "unborn"
    /\ \A p \in ObjNames : p < o => objs[p].state # "unborn"
    /\ Len(heap) < MaxCells
    /\ heap' = New(heap, [i \in 1..bucket_count |-> <<>>])
    /\ objs' = [objs EXCEPT ![o] =
                  [state |-> "alive", buckets |-> Len(heap) + 1, size_ |-> 0,
                   bucket_count_ |-> bucket_count, max_load_factor_ |-> One]]
    /\ op' = ObjCall("ctor", o, o)
    /\ ret' = "void"
    /\ UNCHANGED <<obj, bad_allocs, mapVars, setVars, libVars>>

\* mutant: the copy takes the pointer of the source
CopyCtor_shallow(dst, src) ==
    /\ dst # src
    /\ objs[dst].state = "unborn"
    /\ objs[src].state = "alive"
    /\ IF objs[src].buckets = nullptr
       THEN ObjCrash("copy_ctor", dst, src)
       ELSE /\ objs' = [objs EXCEPT ![dst] = objs[src]]
            /\ op' = ObjCall("copy_ctor", dst, src)
            /\ ret' = "void"
            /\ UNCHANGED <<obj, bad_allocs, heap, mapVars, setVars, libVars>>

\* copy constructor: dst(src)
CopyCtor(dst, src) ==
    /\ dst # src
    /\ objs[dst].state = "unborn"
    /\ objs[src].state = "alive"
    /\ IF objs[src].buckets = nullptr
       THEN ObjCrash("copy_ctor", dst, src)
       ELSE /\ Len(heap) < MaxCells
            /\ heap' = New(heap, heap[objs[src].buckets].vec)
            /\ objs' = [objs EXCEPT ![dst] =
                          [objs[src] EXCEPT !.buckets = Len(heap) + 1]]
            /\ op' = ObjCall("copy_ctor", dst, src)
            /\ ret' = "void"
            /\ UNCHANGED <<obj, bad_allocs, mapVars, setVars, libVars>>

\* copy assignment: dst = src
CopyAssign(dst, src) ==
    /\ objs[dst].state = "alive"
    /\ objs[src].state = "alive"
    /\ IF dst = src
       THEN /\ op' = ObjCall("copy_assign", dst, src)
            /\ ret' = "void"
            /\ UNCHANGED <<obj, objVars, mapVars, setVars, libVars>>
       ELSE IF objs[src].buckets = nullptr
       THEN /\ obj' = "crashed"
            /\ heap' = Delete(heap, objs[dst].buckets)
            /\ objs' = [objs EXCEPT ![dst] =
                          [objs[src] EXCEPT !.buckets = objs[dst].buckets]]
            /\ op' = ObjCall("copy_assign", dst, src)
            /\ ret' = "none"
            /\ UNCHANGED <<bad_allocs, mapVars, setVars, libVars>>
       ELSE /\ Len(heap) < MaxCells
            /\ heap' = New(Delete(heap, objs[dst].buckets),
                           heap[objs[src].buckets].vec)
            /\ objs' = [objs EXCEPT ![dst] =
                          [objs[src] EXCEPT !.buckets = Len(heap) + 1]]
            /\ op' = ObjCall("copy_assign", dst, src)
            /\ ret' = "void"
            /\ UNCHANGED <<obj, bad_allocs, mapVars, setVars, libVars>>

\* mutant: the source keeps its pointer and its counts
MoveCtor_keeps_source(dst, src) ==
    /\ dst # src
    /\ objs[dst].state = "unborn"
    /\ objs[src].state = "alive"
    /\ objs' = [objs EXCEPT ![dst] = objs[src]]
    /\ op' = ObjCall("move_ctor", dst, src)
    /\ ret' = "void"
    /\ UNCHANGED <<obj, bad_allocs, heap, mapVars, setVars, libVars>>

\* move constructor: dst(std::move(src))
MoveCtor(dst, src) ==
    /\ dst # src
    /\ objs[dst].state = "unborn"
    /\ objs[src].state = "alive"
    /\ objs' = [objs EXCEPT ![dst] = objs[src],
                            ![src] = MovedFrom(objs[src])]
    /\ op' = ObjCall("move_ctor", dst, src)
    /\ ret' = "void"
    /\ UNCHANGED <<obj, bad_allocs, heap, mapVars, setVars, libVars>>

\* mutant: no `this != &other` test
MoveAssign_no_self_test(dst, src) ==
    /\ objs[dst].state = "alive"
    /\ objs[src].state = "alive"
    /\ heap' = Delete(heap, objs[dst].buckets)
    /\ objs' = [objs EXCEPT ![dst] = objs[src],
                            ![src] = MovedFrom(objs[src])]
    /\ op' = ObjCall("move_assign", dst, src)
    /\ ret' = "void"
    /\ UNCHANGED <<obj, bad_allocs, mapVars, setVars, libVars>>

\* move assignment: dst = std::move(src)
MoveAssign(dst, src) ==
    /\ objs[dst].state = "alive"
    /\ objs[src].state = "alive"
    /\ IF dst = src
       THEN UNCHANGED objVars
       ELSE /\ heap' = Delete(heap, objs[dst].buckets)
            /\ objs' = [objs EXCEPT ![dst] = objs[src],
                                    ![src] = MovedFrom(objs[src])]
    /\ op' = ObjCall("move_assign", dst, src)
    /\ ret' = "void"
    /\ UNCHANGED <<obj, bad_allocs, mapVars, setVars, libVars>>

\* destructor
Dtor(o) ==
    /\ objs[o].state = "alive"
    /\ heap' = Delete(heap, objs[o].buckets)
    /\ objs' = [objs EXCEPT ![o] = Destroyed]
    /\ op' = ObjCall("dtor", o, o)
    /\ ret' = "void"
    /\ UNCHANGED <<obj, bad_allocs, mapVars, setVars, libVars>>

\* clear()
Clear(o) ==
    /\ objs[o].state = "alive"
    /\ IF objs[o].buckets = nullptr
       THEN ObjCrash("clear", o, o)
       ELSE /\ heap' = [heap EXCEPT ![objs[o].buckets].vec =
                          [i \in 1..Len(@) |-> <<>>]]
            /\ objs' = [objs EXCEPT ![o].size_ = 0]
            /\ op' = ObjCall("clear", o, o)
            /\ ret' = "void"
            /\ UNCHANGED <<obj, bad_allocs, mapVars, setVars, libVars>>

\* what a call leaves behind when it added or removed an entry: `bkts` is
\* the vector afterwards, made by rehash (a new vector, the old one deleted)
\* or changed in place
Stored(o, bkts, size, bucket_count, rehashed) ==
    /\ IF rehashed
       THEN /\ Len(heap) < MaxCells
            /\ heap' = Delete(New(heap, bkts), objs[o].buckets)
            /\ objs' = [objs EXCEPT ![o].buckets = Len(heap) + 1,
                                    ![o].size_ = size,
                                    ![o].bucket_count_ = bucket_count]
       ELSE /\ heap' = [heap EXCEPT ![objs[o].buckets].vec = bkts]
            /\ objs' = [objs EXCEPT ![o].size_ = size]
    /\ UNCHANGED <<obj, bad_allocs, mapVars, setVars, libVars>>

\* ---- UnorderedMap objects
MapObj_ctor(o, bucket_count) == obj = "map" /\ Ctor(o, bucket_count)
MapObj_copy_ctor(dst, src) == obj = "map" /\ CopyCtor(dst, src)
MapObj_copy_assign(dst, src) == obj = "map" /\ CopyAssign(dst, src)
MapObj_move_ctor(dst, src) == obj = "map" /\ MoveCtor(dst, src)
MapObj_move_assign(dst, src) == obj = "map" /\ MoveAssign(dst, src)
MapObj_dtor(o) == obj = "map" /\ Dtor(o)
MapObj_clear(o) == obj = "map" /\ Clear(o)

MapObj_insert(o, key, value) ==
    LET ob == objs[o]
        bkts == heap[ob.buckets].vec
        it == Map_find_in_bucket(bkts, key, Map_hash(key, ob.bucket_count_))
        r == Map_emplace_back(bkts, ob.size_, ob.bucket_count_,
                              ob.max_load_factor_, key, value)
    IN /\ obj = "map"
       /\ ob.state = "alive"
       /\ IF ob.bucket_count_ = 0
          THEN ObjCrash("insert", o, o)
          ELSE /\ IF it = 0
                  THEN /\ Stored(o, r.buckets, r.size_, r.bucket_count_,
                                 r.rehashed)
                       /\ ret' = TRUE
                  ELSE /\ ret' = FALSE
                       /\ UNCHANGED <<obj, objVars, mapVars, setVars, libVars>>
               /\ op' = ObjCall("insert", o, o)

MapObj_erase(o, key) ==
    LET ob == objs[o]
        bkts == heap[ob.buckets].vec
        index == Map_hash(key, ob.bucket_count_)
        it == Map_find_in_bucket(bkts, key, index)
    IN /\ obj = "map"
       /\ ob.state = "alive"
       /\ IF ob.bucket_count_ = 0
          THEN ObjCrash("erase", o, o)
          ELSE /\ IF it # 0
                  THEN /\ Stored(o, [bkts EXCEPT ![index + 1] = ListErase(@, it)],
                                 ob.size_ - 1, ob.bucket_count_, FALSE)
                       /\ ret' = TRUE
                  ELSE /\ ret' = FALSE
                       /\ UNCHANGED <<obj, objVars, mapVars, setVars, libVars>>
               /\ op' = ObjCall("erase", o, o)

MapObj_max_load_factor(o, mlf) ==
    LET ob == objs[o]
        target == Map_shrink_target(ob.size_, mlf)
    IN /\ obj = "map"
       /\ ob.state = "alive"
       /\ IF FloatGT(Map_load_factor(ob.size_, ob.bucket_count_), mlf)
          THEN /\ Len(heap) < MaxCells
               /\ heap' = Delete(New(heap, Map_rehash(heap[ob.buckets].vec,
                                                      target)),
                                 ob.buckets)
               /\ objs' = [objs EXCEPT ![o].max_load_factor_ = mlf,
                                       ![o].buckets = Len(heap) + 1,
                                       ![o].bucket_count_ = target]
          ELSE /\ objs' = [objs EXCEPT ![o].max_load_factor_ = mlf]
               /\ UNCHANGED heap
       /\ op' = ObjCall("max_load_factor", o, o)
       /\ ret' = "void"
       /\ UNCHANGED <<obj, bad_allocs, mapVars, setVars, libVars>>

\* ---- UnorderedSet objects
SetObj_ctor(o, bucket_count) == obj = "set" /\ Ctor(o, bucket_count)
SetObj_copy_ctor(dst, src) == obj = "set" /\ CopyCtor(dst, src)
SetObj_copy_assign(dst, src) == obj = "set" /\ CopyAssign(dst, src)
SetObj_move_ctor(dst, src) == obj = "set" /\ MoveCtor(dst, src)
SetObj_move_assign(dst, src) == obj = "set" /\ MoveAssign(dst, src)
SetObj_dtor(o) == obj = "set" /\ Dtor(o)
SetObj_clear(o) == obj = "set" /\ Clear(o)

SetObj_insert(o, key) ==
    LET ob == objs[o]
        bkts == heap[ob.buckets].vec
        index == Set_hash(key, ob.bucket_count_)
        it == Set_find_in_bucket(bkts, key, index)
        appended == [bkts EXCEPT ![index + 1] = Append(@, key)]
        rehashed == Set_exceeds(ob.size_ + 1, ob.bucket_count_,
                                ob.max_load_factor_)
    IN /\ obj = "set"
       /\ ob.state = "alive"
       /\ IF ob.bucket_count_ = 0
          THEN ObjCrash("insert", o, o)
          ELSE /\ IF it = 0
                  THEN /\ IF rehashed
                          THEN Stored(o, Set_rehash(appended,
                                          Set_growth(ob.bucket_count_)),
                                      ob.size_ + 1,
                                      Set_growth(ob.bucket_count_), TRUE)
                          ELSE Stored(o, appended, ob.size_ + 1,
                                      ob.bucket_count_, FALSE)
                       /\ ret' = TRUE
                  ELSE /\ ret' = FALSE
                       /\ UNCHANGED <<obj, objVars, mapVars, setVars, libVars>>
               /\ op' = ObjCall("insert", o, o)

SetObj_erase(o, key) ==
    LET ob == objs[o]
        bkts == heap[ob.buckets].vec
        index == Set_hash(key, ob.bucket_count_)
        it == Set_find_in_bucket(bkts, key, index)
    IN /\ obj = "set"
       /\ ob.state = "alive"
       /\ IF ob.bucket_count_ = 0
          THEN ObjCrash("erase", o, o)
          ELSE /\ IF it # 0
                  THEN /\ Stored(o, [bkts EXCEPT ![index + 1] = ListErase(@, it)],
                                 ob.size_ - 1, ob.bucket_count_, FALSE)
                       /\ ret' = TRUE
                  ELSE /\ ret' = FALSE
                       /\ UNCHANGED <<obj, objVars, mapVars, setVars, libVars>>
               /\ op' = ObjCall("erase", o, o)

SetObj_max_load_factor(o, mlf) ==
    LET ob == objs[o]
        target == Set_shrink_target(ob.size_, mlf)
    IN /\ obj = "set"
       /\ ob.state = "alive"
       /\ IF FloatGT(Set_load_factor(ob.size_, ob.bucket_count_), mlf)
          THEN /\ Len(heap) < MaxCells
               /\ heap' = Delete(New(heap, Set_rehash(heap[ob.buckets].vec,
                                                      target)),
                                 ob.buckets)
               /\ objs' = [objs EXCEPT ![o].max_load_factor_ = mlf,
                                       ![o].buckets = Len(heap) + 1,
                                       ![o].bucket_count_ = target]
          ELSE /\ objs' = [objs EXCEPT ![o].max_load_factor_ = mlf]
               /\ UNCHANGED heap
       /\ op' = ObjCall("max_load_factor", o, o)
       /\ ret' = "void"
       /\ UNCHANGED <<obj, bad_allocs, mapVars, setVars, libVars>>

\* the program starts with no object
InitCopyMove ==
    /\ obj \in {"map", "set"}
    /\ NoMap
    /\ NoSet
    /\ NoObjects
    /\ op = ObjCall("start", 1, 1)
    /\ ret = "void"

NextCopyMove ==
    \/ \E o \in ObjNames, n \in ObjBucketCounts : MapObj_ctor(o, n)
    \/ \E dst, src \in ObjNames : MapObj_copy_ctor(dst, src)
    \/ \E dst, src \in ObjNames : MapObj_copy_assign(dst, src)
    \/ \E dst, src \in ObjNames : MapObj_move_ctor(dst, src)
    \/ \E dst, src \in ObjNames : MapObj_move_assign(dst, src)
    \/ \E o \in ObjNames : MapObj_dtor(o)
    \/ \E o \in ObjNames : MapObj_clear(o)
    \/ \E o \in ObjNames, k \in ObjKeys, v \in ObjValues :
          MapObj_insert(o, k, v)
    \/ \E o \in ObjNames, k \in ObjKeys : MapObj_erase(o, k)
    \/ \E o \in ObjNames, f \in ObjLoadFactors : MapObj_max_load_factor(o, f)
    \/ \E o \in ObjNames, n \in ObjBucketCounts : SetObj_ctor(o, n)
    \/ \E dst, src \in ObjNames : SetObj_copy_ctor(dst, src)
    \/ \E dst, src \in ObjNames : SetObj_copy_assign(dst, src)
    \/ \E dst, src \in ObjNames : SetObj_move_ctor(dst, src)
    \/ \E dst, src \in ObjNames : SetObj_move_assign(dst, src)
    \/ \E o \in ObjNames : SetObj_dtor(o)
    \/ \E o \in ObjNames : SetObj_clear(o)
    \/ \E o \in ObjNames, k \in ObjKeys : SetObj_insert(o, k)
    \/ \E o \in ObjNames, k \in ObjKeys : SetObj_erase(o, k)
    \/ \E o \in ObjNames, f \in ObjLoadFactors : SetObj_max_load_factor(o, f)

SpecCopyMove == InitCopyMove /\ [][NextCopyMove]_vars

\* ------------------------------------- the program, allocations that fail
\* SpecBadAlloc is a program that constructs, fills, copies, assigns and
\* destroys up to two maps, or two sets, on a heap that can run out: any
\* `new`, and any node allocation of a list, may throw std::bad_alloc.  No
\* member function catches it, so it leaves the call (ret = "bad_alloc");
\* the program catches it and goes on.

\* allocations that throw in one run of the program
MaxBadAllocs == 1

\* an allocation throws std::bad_alloc
BadAlloc ==
    /\ bad_allocs < MaxBadAllocs
    /\ bad_allocs' = bad_allocs + 1

\* the object's pointer is one its calls can follow: a vector that is not
\* deleted, or nullptr in an object that was moved from
Intact(o) ==
    IF objs[o].buckets = nullptr
    THEN objs[o].bucket_count_ = 0
    ELSE heap[objs[o].buckets].frees = 0

\* a call that reads *buckets through a pointer to a deleted vector, or
\* through a nullptr that copy assignment left beside a bucket_count_ > 0:
\* undefined behaviour.  The freed vector object has been overwritten by the
\* allocator; the g++ build and an AddressSanitizer build both die at the
\* first such read (segmentation fault, heap-use-after-free).
UsesOfBuckets ==
    {"insert", "copy_ctor", "copy_assign", "dtor"}

ObjUseFreed(name, o) ==
    /\ objs[o].state = "alive"
    /\ ~Intact(o)
    /\ ObjCrash(name, o, o)

\* the vector that rehash had filled with the first n of `entries` when
\* push_back threw; rehash holds it in a local raw pointer and nothing
\* deletes it
Map_rehash_partial(entries, n, new_bucket_count) ==
    Map_rehash(<<SubSeq(entries, 1, n)>>, new_bucket_count)

Set_rehash_partial(entries, n, new_bucket_count) ==
    Set_rehash(<<SubSeq(entries, 1, n)>>, new_bucket_count)

\* mutant: rehash installs the vector it was filling when push_back threw
RehashThrows_installs(h, p, bkts, partial) ==
    [heap |-> Delete(New([h EXCEPT ![p].vec = bkts], partial), p),
     buckets |-> Len(h) + 1]

\* rehash left by an exception of push_back, called on the vector at `p`
\* holding `bkts`: the heap and the object's `buckets` afterwards.  The two
\* assignments and `delete buckets` come after the loop and are not reached;
\* the vector being filled stays allocated
RehashThrows(h, p, bkts, partial) ==
    [heap |-> New([h EXCEPT ![p].vec = bkts], partial),
     buckets |-> p]

\* insert(key, value) of an absent key, left by std::bad_alloc: thrown by
\* emplace_back (nothing has changed), by the `new` of rehash or by a
\* push_back of rehash (the pair is stored and counted, no rehash is made)
MapObj_insert_bad_alloc(o, key, value) ==
    LET ob == objs[o]
        bkts == heap[ob.buckets].vec
        index == Map_hash(key, ob.bucket_count_)
        it == Map_find_in_bucket(bkts, key, index)
        appended == [bkts EXCEPT ![index + 1] =
                        Append(@, [key |-> key, value |-> value])]
        entries == Flatten(appended)
    IN /\ obj = "map"
       /\ ob.state = "alive"
       /\ ob.bucket_count_ # 0
       /\ Intact(o)
       /\ it = 0
       /\ \/ UNCHANGED <<heap, objs>>
          \/ /\ Map_exceeds(ob.size_ + 1, ob.bucket_count_, ob.max_load_factor_)
             /\ heap' = [heap EXCEPT ![ob.buckets].vec = appended]
             /\ objs' = [objs EXCEPT ![o].size_ = ob.size_ + 1]
          \/ /\ Map_exceeds(ob.size_ + 1, ob.bucket_count_, ob.max_load_factor_)
             /\ \E n \in 0..(Len(entries) - 1) :
                   /\ Len(heap) < MaxCells
                   /\ LET r == RehashThrows(heap, ob.buckets, appended,
                                             Map_rehash_partial(entries, n,
                                                 Map_growth(ob.bucket_count_)))
                      IN /\ heap' = r.heap
                         /\ objs' = [objs EXCEPT ![o].size_ = ob.size_ + 1,
                                                 ![o].buckets = r.buckets]
       /\ op' = ObjCall("insert", o, o)
       /\ ret' = "bad_alloc"
       /\ BadAlloc
    /\ BadAlloc
       /\ UNCHANGED <<obj, mapVars, setVars, libVars>>

\* max_load_factor(mlf) with load_factor() > mlf, left by std::bad_alloc of
\* rehash: the factor is stored, no rehash is made
MapObj_max_load_factor_bad_alloc(o, mlf) ==
    LET ob == objs[o]
        bkts == heap[ob.buckets].vec
        entries == Flatten(bkts)
        target == Map_shrink_target(ob.size_, mlf)
    IN /\ obj = "map"
       /\ ob.state = "alive"
       /\ Intact(o)
       /\ FloatGT(Map_load_factor(ob.size_, ob.bucket_count_), mlf)
       /\ \/ /\ objs' = [objs EXCEPT ![o].max_load_factor_ = mlf]
             /\ UNCHANGED heap
          \/ \E n \in 0..(Len(entries) - 1) :
                /\ Len(heap) < MaxCells
                /\ LET r == RehashThrows(heap, ob.buckets, bkts,
                                          Map_rehash_partial(entries, n, target))
                   IN /\ heap' = r.heap
                      /\ objs' = [objs EXCEPT ![o].max_load_factor_ = mlf,
                                              ![o].buckets = r.buckets]
       /\ op' = ObjCall("max_load_factor", o, o)
       /\ ret' = "bad_alloc"
       /\ BadAlloc
    /\ BadAlloc
       /\ UNCHANGED <<obj, mapVars, setVars, libVars>>

SetObj_insert_bad_alloc(o, key) ==
    LET ob == objs[o]
        bkts == heap[ob.buckets].vec
        index == Set_hash(key, ob.bucket_count_)
        it == Set_find_in_bucket(bkts, key, index)
        appended == [bkts EXCEPT ![index + 1] = Append(@, key)]
        entries == Flatten(appended)
    IN /\ obj = "set"
       /\ ob.state = "alive"
       /\ ob.bucket_count_ # 0
       /\ Intact(o)
       /\ it = 0
       /\ \/ UNCHANGED <<heap, objs>>
          \/ /\ Set_exceeds(ob.size_ + 1, ob.bucket_count_, ob.max_load_factor_)
             /\ heap' = [heap EXCEPT ![ob.buckets].vec = appended]
             /\ objs' = [objs EXCEPT ![o].size_ = ob.size_ + 1]
          \/ /\ Set_exceeds(ob.size_ + 1, ob.bucket_count_, ob.max_load_factor_)
             /\ \E n \in 0..(Len(entries) - 1) :
                   /\ Len(heap) < MaxCells
                   /\ LET r == RehashThrows(heap, ob.buckets, appended,
                                             Set_rehash_partial(entries, n,
                                                 Set_growth(ob.bucket_count_)))
                      IN /\ heap' = r.heap
                         /\ objs' = [objs EXCEPT ![o].size_ = ob.size_ + 1,
                                                 ![o].buckets = r.buckets]
       /\ op' = ObjCall("insert", o, o)
       /\ ret' = "bad_alloc"
       /\ BadAlloc
    /\ BadAlloc
       /\ UNCHANGED <<obj, mapVars, setVars, libVars>>

SetObj_max_load_factor_bad_alloc(o, mlf) ==
    LET ob == objs[o]
        bkts == heap[ob.buckets].vec
        entries == Flatten(bkts)
        target == Set_shrink_target(ob.size_, mlf)
    IN /\ obj = "set"
       /\ ob.state = "alive"
       /\ Intact(o)
       /\ FloatGT(Set_load_factor(ob.size_, ob.bucket_count_), mlf)
       /\ \/ /\ objs' = [objs EXCEPT ![o].max_load_factor_ = mlf]
             /\ UNCHANGED heap
          \/ \E n \in 0..(Len(entries) - 1) :
                /\ Len(heap) < MaxCells
                /\ LET r == RehashThrows(heap, ob.buckets, bkts,
                                          Set_rehash_partial(entries, n, target))
                   IN /\ heap' = r.heap
                      /\ objs' = [objs EXCEPT ![o].max_load_factor_ = mlf,
                                              ![o].buckets = r.buckets]
       /\ op' = ObjCall("max_load_factor", o, o)
       /\ ret' = "bad_alloc"
       /\ BadAlloc
    /\ BadAlloc
       /\ UNCHANGED <<obj, mapVars, setVars, libVars>>

\* a constructor left by std::bad_alloc of its `new`: no object is made and
\* the new-expression releases what it had allocated
Ctor_bad_alloc(o) ==
    /\ objs[o].state = "unborn"
    /\ \A p \in ObjNames : p < o => objs[p].state # "unborn"
    /\ op' = ObjCall("ctor", o, o)
    /\ ret' = "bad_alloc"
    /\ BadAlloc
    /\ UNCHANGED <<obj, heap, objs, mapVars, setVars, libVars>>

CopyCtor_bad_alloc(dst, src) ==
    /\ dst # src
    /\ objs[dst].state = "unborn"
    /\ objs[src].state = "alive"
    /\ objs[src].buckets # nullptr
    /\ Intact(src)
    /\ op' = ObjCall("copy_ctor", dst, src)
    /\ ret' = "bad_alloc"
    /\ BadAlloc
    /\ UNCHANGED <<obj, heap, objs, mapVars, setVars, libVars>>

\* copy assignment left by std::bad_alloc of its `new`: `delete buckets`
\* and the three assignments are done, `buckets` still holds the pointer
\* that was deleted
CopyAssign_bad_alloc(dst, src) ==
    /\ dst # src
    /\ objs[dst].state = "alive"
    /\ objs[src].state = "alive"
    /\ objs[src].buckets # nullptr
    /\ Intact(src)
    /\ Intact(dst)
    /\ heap' = Delete(heap, objs[dst].buckets)
    /\ objs' = [objs EXCEPT ![dst] =
                  [objs[src] EXCEPT !.buckets = objs[dst].buckets]]
    /\ op' = ObjCall("copy_assign", dst, src)
    /\ ret' = "bad_alloc"
    /\ BadAlloc
    /\ UNCHANGED <<obj, mapVars, setVars, libVars>>

NextBadAlloc ==
    \/ \E o \in ObjNames, n \in ObjBucketCounts : MapObj_ctor(o, n)
    \/ \E dst, src \in ObjNames :
          Intact(src) /\ MapObj_copy_ctor(dst, src)
    \/ \E dst, src \in ObjNames :
          Intact(dst) /\ Intact(src) /\ MapObj_copy_assign(dst, src)
    \/ \E o \in ObjNames : MapObj_dtor(o)
    \/ \E o \in ObjNames, k \in ObjKeys, v \in ObjValues :
          Intact(o) /\ MapObj_insert(o, k, v)
    \/ \E o \in ObjNames, f \in ObjLoadFactors :
          Intact(o) /\ MapObj_max_load_factor(o, f)
    \/ \E o \in ObjNames, k \in ObjKeys, v \in ObjValues :
          MapObj_insert_bad_alloc(o, k, v)
    \/ \E o \in ObjNames, f \in ObjLoadFactors :
          MapObj_max_load_factor_bad_alloc(o, f)
    \/ \E o \in ObjNames, n \in ObjBucketCounts : SetObj_ctor(o, n)
    \/ \E dst, src \in ObjNames :
          Intact(src) /\ SetObj_copy_ctor(dst, src)
    \/ \E dst, src \in ObjNames :
          Intact(dst) /\ Intact(src) /\ SetObj_copy_assign(dst, src)
    \/ \E o \in ObjNames : SetObj_dtor(o)
    \/ \E o \in ObjNames, k \in ObjKeys : Intact(o) /\ SetObj_insert(o, k)
    \/ \E o \in ObjNames, f \in ObjLoadFactors :
          Intact(o) /\ SetObj_max_load_factor(o, f)
    \/ \E o \in ObjNames, k \in ObjKeys : SetObj_insert_bad_alloc(o, k)
    \/ \E o \in ObjNames, f \in ObjLoadFactors :
          SetObj_max_load_factor_bad_alloc(o, f)
    \/ \E o \in ObjNames : obj \in {"map", "set"} /\ Ctor_bad_alloc(o)
    \/ \E dst, src \in ObjNames :
          obj \in {"map", "set"} /\ CopyCtor_bad_alloc(dst, src)
    \/ \E dst, src \in ObjNames :
          obj \in {"map", "set"} /\ CopyAssign_bad_alloc(dst, src)
    \/ \E o \in ObjNames, name \in UsesOfBuckets :
          obj \in {"map", "set"} /\ ObjUseFreed(name, o)

SpecBadAlloc == InitCopyMove /\ [][NextBadAlloc]_vars

\* ----------------------------------------------------------- observations
\* the entries stored across all buckets
MapPairs == Flatten(buckets)
SetElements == Flatten(set_buckets)

\* the distinct keys present
MapKeys == {MapPairs[i].key : i \in 1..Len(MapPairs)}
SetKeys == {SetElements[i] : i \in 1..Len(SetElements)}

\* the value a lookup of `key` yields (NoValue: not found), found the way
\* contains and operator[] find it
Map_lookup_in(bkts, bucket_count, key) ==
    LET index == Map_hash(key, bucket_count)
        it == Map_find_in_bucket(bkts, key, index)
    IN IF it = 0 THEN NoValue ELSE bkts[index + 1][it].value

Map_lookup(key) == Map_lookup_in(buckets, bucket_count_, key)

InsertCalls == {"insert", "insert_or_assign", "subscript", "subscript_assign"}

\* ------------------------------- the program, values in order of insertion
\* SpecOrder is a program that stores with each new key a value greater than
\* every value in the map, as main does ("one" -> 1, "two" -> 2, ...): the
\* values in a bucket then tell the order in which its keys were inserted.

\* no entry is added once the value to store would exceed this
MaxStamp == 5

\* the value the program passes with the next new key
NextStamp ==
    LET stored == {MapPairs[i].value : i \in 1..Len(MapPairs)} \cup {0}
    IN 1 + CHOOSE v \in stored : \A w \in stored : w <= v

InitOrder ==
    \E n \in CtorBucketCounts \cup {DefaultBucketCount} : Map_ctor(n)

NextOrder ==
    \/ \E k \in Keys : NextStamp <= MaxStamp /\ Map_insert(k, NextStamp)
    \/ \E k \in Keys :
          /\ NextStamp <= MaxStamp
          /\ k \notin MapKeys
          /\ Map_insert_or_assign(k, NextStamp)
    \/ \E k \in Keys : Map_erase(k)
    \/ Map_clear
    \/ \E f \in LoadFactors : Map_max_load_factor(f)

SpecOrder == InitOrder /\ [][NextOrder]_vars

\* ------------------------------------------------- a map and a set, alike
\* A program that builds one UnorderedMap and one UnorderedSet with the same
\* bucket count and makes every call on both: m.insert(k, v) and s.insert(k),
\* m.erase(k) and s.erase(k), clear() on both, max_load_factor(f) on both.
\* ret holds the pair of the two return values.
MapSet_ctor(bucket_count) ==
    /\ obj = "map and set"
    /\ buckets = [i \in 1..bucket_count |-> <<>>]
    /\ size_ = 0
    /\ bucket_count_ = bucket_count
    /\ max_load_factor_ = One
    /\ written = [k \in Keys |-> NoValue]
    /\ set_buckets = [i \in 1..bucket_count |-> <<>>]
    /\ set_size_ = 0
    /\ set_bucket_count_ = bucket_count
    /\ set_max_load_factor_ = One
    /\ set_inserted = {}
    /\ NoObjects
    /\ op = Call("ctor", 0, 0, 0, bucket_count)
    /\ ret = <<"void", "void">>

MapSet_insert(key, value) ==
    LET index == Map_hash(key, bucket_count_)
        it == Map_find_in_bucket(buckets, key, index)
        r == Map_emplace_back(buckets, size_, bucket_count_, max_load_factor_,
                              key, value)
        set_index == Set_hash(key, set_bucket_count_)
        set_it == Set_find_in_bucket(set_buckets, key, set_index)
        appended == [set_buckets EXCEPT ![set_index + 1] = Append(@, key)]
    IN /\ obj = "map and set"
       /\ IF it = 0
          THEN /\ r.bucket_count_ <= MaxBuckets
               /\ buckets' = r.buckets
               /\ size_' = r.size_
               /\ bucket_count_' = r.bucket_count_
               /\ written' = [written EXCEPT ![key] = value]
          ELSE UNCHANGED <<buckets, size_, bucket_count_, written>>
       /\ IF set_it = 0
          THEN /\ set_size_' = set_size_ + 1
               /\ IF Set_exceeds(set_size_ + 1, set_bucket_count_,
                                 set_max_load_factor_)
                  THEN /\ Set_growth(set_bucket_count_) <= MaxBuckets
                       /\ set_buckets' =
                             Set_rehash(appended, Set_growth(set_bucket_count_))
                       /\ set_bucket_count_' = Set_growth(set_bucket_count_)
                  ELSE /\ set_buckets' = appended
                       /\ UNCHANGED set_bucket_count_
          ELSE UNCHANGED <<set_buckets, set_size_, set_bucket_count_>>
       /\ set_inserted' = set_inserted \cup {key}
       /\ ret' = <<it = 0, set_it = 0>>
       /\ op' = Call("insert", key, value, size_, bucket_count_)
       /\ UNCHANGED <<obj, max_load_factor_, set_max_load_factor_, objVars,
                      libVars>>

MapSet_erase(key) ==
    LET index == Map_hash(key, bucket_count_)
        it == Map_find_in_bucket(buckets, key, index)
        set_index == Set_hash(key, set_bucket_count_)
        set_it == Set_find_in_bucket(set_buckets, key, set_index)
    IN /\ obj = "map and set"
       /\ IF it # 0
          THEN /\ buckets' = [buckets EXCEPT ![index + 1] = ListErase(@, it)]
               /\ size_' = size_ - 1
               /\ written' = [written EXCEPT ![key] = NoValue]
          ELSE UNCHANGED <<buckets, size_, written>>
       /\ IF set_it # 0
          THEN /\ set_buckets' =
                     [set_buckets EXCEPT ![set_index + 1] = ListErase(@, set_it)]
               /\ set_size_' = set_size_ - 1
          ELSE UNCHANGED <<set_buckets, set_size_>>
       /\ set_inserted' = set_inserted \ {key}
       /\ ret' = <<it # 0, set_it # 0>>
       /\ op' = Call("erase", key, 0, size_, bucket_count_)
       /\ UNCHANGED <<obj, bucket_count_, max_load_factor_, set_bucket_count_,
                      set_max_load_factor_, objVars, libVars>>

MapSet_clear ==
    /\ obj = "map and set"
    /\ buckets' = [i \in 1..Len(buckets) |-> <<>>]
    /\ size_' = 0
    /\ written' = [k \in Keys |-> NoValue]
    /\ set_buckets' = [i \in 1..Len(set_buckets) |-> <<>>]
    /\ set_size_' = 0
    /\ set_inserted' = {}
    /\ ret' = <<"void", "void">>
    /\ op' = Call("clear", 0, 0, size_, bucket_count_)
    /\ UNCHANGED <<obj, bucket_count_, max_load_factor_, set_bucket_count_,
                   set_max_load_factor_, objVars, libVars>>

MapSet_max_load_factor(mlf) ==
    /\ obj = "map and set"
    /\ max_load_factor_' = mlf
    /\ IF FloatGT(Map_load_factor(size_, bucket_count_), mlf)
       THEN /\ Map_shrink_target(size_, mlf) <= MaxBuckets
            /\ buckets' = Map_rehash(buckets, Map_shrink_target(size_, mlf))
            /\ bucket_count_' = Map_shrink_target(size_, mlf)
       ELSE UNCHANGED <<buckets, bucket_count_>>
    /\ set_max_load_factor_' = mlf
    /\ IF FloatGT(Set_load_factor(set_size_, set_bucket_count_), mlf)
       THEN /\ Set_shrink_target(set_size_, mlf) <= MaxBuckets
            /\ set_buckets' =
                  Set_rehash(set_buckets, Set_shrink_target(set_size_, mlf))
            /\ set_bucket_count_' = Set_shrink_target(set_size_, mlf)
       ELSE UNCHANGED <<set_buckets, set_bucket_count_>>
    /\ ret' = <<"void", "void">>
    /\ op' = Call("max_load_factor", 0, 0, size_, bucket_count_)
    /\ UNCHANGED <<obj, size_, written, set_size_, set_inserted, objVars,
                   libVars>>

InitMapSet ==
    \E n \in CtorBucketCounts \cup {DefaultBucketCount} : MapSet_ctor(n)

NextMapSet ==
    \/ \E k \in Keys, v \in Values : MapSet_insert(k, v)
    \/ \E k \in Keys : MapSet_erase(k)
    \/ MapSet_clear
    \/ \E f \in LoadFactors : MapSet_max_load_factor(f)

SpecMapSet == InitMapSet /\ [][NextMapSet]_vars

\* ================================================================== Queue
\* A program with two Queue<int>: queue 1 is made by the default or by the
\* capacity constructor, queue 2 is made and assigned as a copy of queue 1.
\* data is the array `new T[n]` made, a sequence of n cells; an index of
\* the code is a position less one.  Every `new` is taken to succeed.

\* size_t arithmetic wraps.  The width is cut from 64 to 16 bits, TLC's
\* integers having 32: every capacity of the model is far below either.
SIZE_WIDTH == 65536
SizeT(n) == n % SIZE_WIDTH

MaxCapacity == 4
QueueValues == 1..2
QueueCapacities == {0, 1, 3}

\* a cell of `new T[n]` that nothing was written to: an indeterminate value,
\* marked by a number no element has
Garbage == -1
\* a cell of `new T[n]()`: value-initialized
ZeroValue == 0
\* what a read of an indeterminate int, or of memory beside the array, gives
Indeterminate == QueueValues \cup {ZeroValue}

\* the values a read of data[index] can give
ReadCell(data, index) ==
    IF index < Len(data) /\ data[index + 1] # Garbage
    THEN {data[index + 1]}
    ELSE Indeterminate

QueueCall(name, q, value) == [name |-> name, q |-> q, value |-> value]

queueFrame == <<mapVars, setVars, objVars, dequeVars, ptrVars, poolVars>>

\* mutant: the elements are moved in array order, not from front_ on
Queue_realloc_array_order(q, newCapacity) ==
    LET newSize == IF q.size_ < newCapacity THEN q.size_ ELSE newCapacity
    IN [q EXCEPT
          !.data = [i \in 1..newCapacity |->
                       IF i <= newSize THEN q.data[i] ELSE Garbage],
          !.capacity_ = newCapacity,
          !.front_ = 0,
          !.rear_ = SizeT(newSize - 1),
          !.size_ = newSize]

Queue_realloc(q, newCapacity) ==
    LET newSize == IF q.size_ < newCapacity THEN q.size_ ELSE newCapacity
    IN [q EXCEPT
          !.data = [i \in 1..newCapacity |->
                       IF i <= newSize
                       THEN q.data[((q.front_ + (i - 1)) % q.capacity_) + 1]
                       ELSE Garbage],
          !.capacity_ = newCapacity,
          !.front_ = 0,
          !.rear_ = SizeT(newSize - 1),
          !.size_ = newSize]

\* Queue()
Queue_default ==
    [state |-> "alive", data |-> <<>>, size_ |-> 0, capacity_ |-> 0,
     front_ |-> 0, rear_ |-> 0]

\* explicit Queue(size_t size)
Queue_ctor(size) ==
    [state |-> "alive", data |-> [i \in 1..size |-> ZeroValue], size_ |-> 0,
     capacity_ |-> size, front_ |-> 0, rear_ |-> SizeT(size - 1)]

Queue_push(q, value) ==
    LET this == queues[q]
        r == IF this.size_ = this.capacity_
             THEN Queue_realloc(this, IF this.capacity_ = 0 THEN 1
                                      ELSE this.capacity_ * 2)
             ELSE this
        rear == SizeT(r.rear_ + 1) % r.capacity_
    IN /\ obj = "queue"
       /\ this.state = "alive"
       /\ r.capacity_ <= MaxCapacity
       /\ queues' = [queues EXCEPT ![q] =
                       [r EXCEPT !.rear_ = rear,
                                 !.data[rear + 1] = value,
                                 !.size_ = r.size_ + 1]]
       /\ queue_elems' = [queue_elems EXCEPT ![q] = Append(@, value)]
       /\ op' = QueueCall("push", q, value)
       /\ ret' = "void"
       /\ UNCHANGED <<obj, queueFrame>>

Queue_pop(q) ==
    LET this == queues[q]
    IN /\ obj = "queue"
       /\ this.state = "alive"
       /\ IF this.size_ = 0
          THEN /\ ret' = "out_of_range"
               /\ UNCHANGED <<queues, queue_elems>>
          ELSE /\ queues' = [queues EXCEPT ![q] =
                               [this EXCEPT
                                  !.front_ = SizeT(this.front_ + 1)
                                               % this.capacity_,
                                  !.size_ = this.size_ - 1]]
               /\ queue_elems' = [queue_elems EXCEPT ![q] = Tail(@)]
               /\ ret' = "void"
       /\ op' = QueueCall("pop", q, 0)
       /\ UNCHANGED <<obj, queueFrame>>

Queue_front(q) ==
    LET this == queues[q]
    IN /\ obj = "queue"
       /\ this.state = "alive"
       /\ IF this.size_ = 0
          THEN ret' = "out_of_range"
          ELSE ret' \in ReadCell(this.data, this.front_)
       /\ op' = QueueCall("front", q, 0)
       /\ UNCHANGED <<obj, queueVars, queueFrame>>

Queue_size(q) ==
    /\ obj = "queue"
    /\ queues[q].state = "alive"
    /\ ret' = queues[q].size_
    /\ op' = QueueCall("size", q, 0)
    /\ UNCHANGED <<obj, queueVars, queueFrame>>

Queue_clear(q) ==
    LET this == queues[q]
    IN /\ obj = "queue"
       /\ this.state = "alive"
       /\ queues' = [queues EXCEPT ![q] =
                       [this EXCEPT !.size_ = 0,
                                    !.front_ = 0,
                                    !.rear_ = SizeT(this.capacity_ - 1)]]
       /\ queue_elems' = [queue_elems EXCEPT ![q] = <<>>]
       /\ op' = QueueCall("clear", q, 0)
       /\ ret' = "void"
       /\ UNCHANGED <<obj, queueFrame>>

\* the fields of a copy of other: data[i] = other.data[i] for i < size_, in
\* a `new T[capacity_]` when allocated, nullptr otherwise
Queue_copy(other, allocated) ==
    [other EXCEPT
       !.data = IF allocated
                THEN [i \in 1..other.capacity_ |->
                        IF i <= other.size_ THEN other.data[i] ELSE Garbage]
                ELSE <<>>]

\* Queue(const Queue& other)
Queue_copy_ctor(q, other) ==
    /\ obj = "queue"
    /\ queues[q].state = "unborn"
    /\ queues[other].state = "alive"
    /\ queues' = [queues EXCEPT ![q] =
                    Queue_copy(queues[other], queues[other].capacity_ > 0)]
    /\ queue_elems' = [queue_elems EXCEPT ![q] = queue_elems[other]]
    /\ op' = QueueCall("copy_ctor", q, other)
    /\ ret' = "void"
    /\ UNCHANGED <<obj, queueFrame>>

\* Queue& operator=(const Queue& other)
Queue_copy_assign(q, other) ==
    /\ obj = "queue"
    /\ queues[q].state = "alive"
    /\ queues[other].state = "alive"
    /\ IF q # other
       THEN /\ queues' = [queues EXCEPT ![q] = Queue_copy(queues[other], TRUE)]
            /\ queue_elems' = [queue_elems EXCEPT ![q] = queue_elems[other]]
       ELSE UNCHANGED <<queues, queue_elems>>
    /\ op' = QueueCall("copy_assign", q, other)
    /\ ret' = "void"
    /\ UNCHANGED <<obj, queueFrame>>

\* ~Queue()
Queue_dtor(q) ==
    /\ obj = "queue"
    /\ queues[q].state = "alive"
    /\ queues' = [queues EXCEPT ![q] = QueueUnborn]
    /\ queue_elems' = [queue_elems EXCEPT ![q] = <<>>]
    /\ op' = QueueCall("dtor", q, 0)
    /\ ret' = "void"
    /\ UNCHANGED <<obj, queueFrame>>

InitQueue ==
    /\ obj = "queue"
    /\ NoMap
    /\ NoSet
    /\ heap = <<>>
    /\ objs = [o \in ObjNames |-> Unborn]
    /\ bad_allocs = 0
    /\ NoDeque
    /\ NoPtr
    /\ NoPool
    /\ \E first \in {Queue_default} \cup {Queue_ctor(n) : n \in QueueCapacities} :
          queues = [q \in QueueNames |-> IF q = 1 THEN first ELSE QueueUnborn]
    /\ queue_elems = [q \in QueueNames |-> <<>>]
    /\ op = QueueCall("ctor", 1, 0)
    /\ ret = "void"

\* the programs push and clear before they copy, as main does
NextQueue ==
    \/ \E v \in QueueValues : queues[2].state = "unborn" /\ Queue_push(1, v)
    \/ \E q \in QueueNames : Queue_pop(q)
    \/ \E q \in QueueNames : Queue_front(q)
    \/ \E q \in QueueNames : Queue_size(q)
    \/ queues[2].state = "unborn" /\ Queue_clear(1)
    \/ Queue_copy_ctor(2, 1)
    \/ \E other \in QueueNames : Queue_copy_assign(2, other)
    \/ Queue_dtor(2)

SpecQueue == InitQueue /\ [][NextQueue]_vars

\* ================================================================== Deque
\* A program with one Deque<int>, made by the default or by the capacity
\* constructor.  Cells, indices and size_t as for Queue.
DequeCall(name, value) == [name |-> name, value |-> value]

dequeFrame == <<mapVars, setVars, objVars, queueVars, ptrVars, poolVars>>

Deque_realloc(d, newCapacity) ==
    LET newSize == IF d.size_ < newCapacity THEN d.size_ ELSE newCapacity
    IN [d EXCEPT
          !.data = [i \in 1..newCapacity |->
                       IF i <= newSize
                       THEN d.data[((d.front_ + (i - 1)) % d.capacity_) + 1]
                       ELSE Garbage],
          !.capacity_ = newCapacity,
          !.front_ = 0,
          !.rear_ = SizeT(newSize - 1),
          !.size_ = newSize]

\* Deque()
Deque_default ==
    [data |-> <<>>, size_ |-> 0, capacity_ |-> 0, front_ |-> 0, rear_ |-> 0]

\* explicit Deque(size_t size)
Deque_ctor(size) ==
    [data |-> [i \in 1..size |-> ZeroValue], size_ |-> 0, capacity_ |-> size,
     front_ |-> 0, rear_ |-> SizeT(size - 1)]

Deque_push_front(value) ==
    LET r == IF deque.size_ = deque.capacity_
             THEN Deque_realloc(deque, IF deque.capacity_ = 0 THEN 1
                                       ELSE deque.capacity_ * 2)
             ELSE deque
        front == SizeT(SizeT(r.front_ - 1) + r.capacity_) % r.capacity_
    IN /\ obj = "deque"
       /\ r.capacity_ <= MaxCapacity
       /\ deque' = [r EXCEPT !.front_ = front,
                             !.data[front + 1] = value,
                             !.size_ = r.size_ + 1]
       /\ deque_elems' = <<value>> \o deque_elems
       /\ op' = DequeCall("push_front", value)
       /\ ret' = "void"
       /\ UNCHANGED <<obj, dequeFrame>>

Deque_push_back(value) ==
    LET r == IF deque.size_ = deque.capacity_
             THEN Deque_realloc(deque, IF deque.capacity_ = 0 THEN 1
                                       ELSE deque.capacity_ * 2)
             ELSE deque
        rear == SizeT(r.rear_ + 1) % r.capacity_
    IN /\ obj = "deque"
       /\ r.capacity_ <= MaxCapacity
       /\ deque' = [r EXCEPT !.rear_ = rear,
                             !.data[rear + 1] = value,
                             !.size_ = r.size_ + 1]
       /\ deque_elems' = Append(deque_elems, value)
       /\ op' = DequeCall("push_back", value)
       /\ ret' = "void"
       /\ UNCHANGED <<obj, dequeFrame>>

Deque_pop_front ==
    /\ obj = "deque"
    /\ IF deque.size_ = 0
       THEN /\ ret' = "out_of_range"
            /\ UNCHANGED <<deque, deque_elems>>
       ELSE /\ deque' = [deque EXCEPT
                           !.front_ = SizeT(deque.front_ + 1) % deque.capacity_,
                           !.size_ = deque.size_ - 1]
            /\ deque_elems' = Tail(deque_elems)
            /\ ret' = "void"
    /\ op' = DequeCall("pop_front", 0)
    /\ UNCHANGED <<obj, dequeFrame>>

Deque_pop_back ==
    /\ obj = "deque"
    /\ IF deque.size_ = 0
       THEN /\ ret' = "out_of_range"
            /\ UNCHANGED <<deque, deque_elems>>
       ELSE /\ deque' = [deque EXCEPT
                           !.rear_ = SizeT(SizeT(deque.rear_ - 1)
                                             + deque.capacity_)
                                       % deque.capacity_,
                           !.size_ = deque.size_ - 1]
            /\ deque_elems' = SubSeq(deque_elems, 1, Len(deque_elems) - 1)
            /\ ret' = "void"
    /\ op' = DequeCall("pop_back", 0)
    /\ UNCHANGED <<obj, dequeFrame>>

\* data[index] read and returned; with index outside the array the read is
\* undefined: some value comes back, or the program dies
Deque_read(name, index) ==
    /\ op' = DequeCall(name, 0)
    /\ \/ /\ ret' \in ReadCell(deque.data, index)
          /\ UNCHANGED obj
       \/ /\ index >= Len(deque.data)
          /\ obj' = "crashed"
          /\ ret' = "none"
    /\ UNCHANGED <<dequeVars, dequeFrame>>

Deque_front ==
    /\ obj = "deque"
    /\ IF deque.size_ = 0
       THEN /\ ret' = "out_of_range"
            /\ op' = DequeCall("front", 0)
            /\ UNCHANGED <<obj, dequeVars, dequeFrame>>
       ELSE Deque_read("front", deque.front_)

Deque_back ==
    /\ obj = "deque"
    /\ IF deque.size_ = 0
       THEN /\ ret' = "out_of_range"
            /\ op' = DequeCall("back", 0)
            /\ UNCHANGED <<obj, dequeVars, dequeFrame>>
       ELSE Deque_read("back", deque.rear_)

Deque_clear ==
    /\ obj = "deque"
    /\ deque' = [deque EXCEPT !.size_ = 0,
                              !.front_ = 0,
                              !.rear_ = SizeT(deque.capacity_ - 1)]
    /\ deque_elems' = <<>>
    /\ op' = DequeCall("clear", 0)
    /\ ret' = "void"
    /\ UNCHANGED <<obj, dequeFrame>>

InitDeque ==
    /\ obj = "deque"
    /\ NoMap
    /\ NoSet
    /\ heap = <<>>
    /\ objs = [o \in ObjNames |-> Unborn]
    /\ bad_allocs = 0
    /\ NoQueue
    /\ NoPtr
    /\ NoPool
    /\ deque \in {Deque_default} \cup {Deque_ctor(n) : n \in QueueCapacities}
    /\ deque_elems = <<>>
    /\ op = DequeCall("ctor", 0)
    /\ ret = "void"

NextDeque ==
    \/ \E v \in QueueValues : Deque_push_front(v)
    \/ \E v \in QueueValues : Deque_push_back(v)
    \/ Deque_pop_front
    \/ Deque_pop_back
    \/ Deque_front
    \/ Deque_back
    \/ Deque_clear

SpecDeque == InitDeque /\ [][NextDeque]_vars

\* ============================================================== sharedptr
\* A program with up to three sharedptr<int>.  counters holds the ints made
\* by `new int(..)`, resources the objects made by `new int(..)` and handed
\* to a sharedptr by sharedptr(T*) or reset(T*), each to one; a pointer is a
\* position there, nullptr is 0; frees counts the deletes applied.
MaxCounters == 4
MaxResources == 2

PtrCall(name, p, other) == [name |-> name, p |-> p, other |-> other]

ptrFrame == <<mapVars, setVars, objVars, queueVars, dequeVars, poolVars>>

\* *counter is read or written after delete counter: undefined behaviour
Ptr_dangling(this) ==
    IF this.counter = nullptr THEN FALSE
    ELSE counters[this.counter].frees > 0

PtrCrash(name, p, other) ==
    /\ obj' = "crashed"
    /\ op' = PtrCall(name, p, other)
    /\ ret' = "none"
    /\ UNCHANGED <<ptrVars, ptrFrame>>

\* mutant: the counter is left as it is
Ptr_incrementcounter_none(cs, counter) == cs

\* incrementcounter(): the counters after it
Ptr_incrementcounter(cs, counter) ==
    IF counter # nullptr
    THEN [cs EXCEPT ![counter].count = @ + 1]
    ELSE cs

\* decrementcounter() of `this`: the fields of *this, the counters and the
\* resources after it
Ptr_decrementcounter(this, cs, rs) ==
    IF this.counter = nullptr
    THEN [this |-> this, counters |-> cs, resources |-> rs]
    ELSE IF cs[this.counter].count - 1 = 0 /\ this.res # nullptr
         THEN [this |-> [this EXCEPT !.res = nullptr, !.counter = nullptr],
               counters |-> [cs EXCEPT ![this.counter].count = 0,
                                       ![this.counter].frees = @ + 1],
               resources |-> [rs EXCEPT ![this.res].frees = @ + 1]]
         ELSE [this |-> this,
               counters |-> [cs EXCEPT ![this.counter].count = @ - 1],
               resources |-> rs]

\* sharedptr()
Ptr_default(p) ==
    /\ obj = "sharedptr"
    /\ ptrs[p].state = "unborn"
    /\ Len(counters) < MaxCounters
    /\ counters' = Append(counters, [count |-> 0, frees |-> 0])
    /\ ptrs' = [ptrs EXCEPT ![p] = [state |-> "alive", res |-> nullptr,
                                    counter |-> Len(counters) + 1]]
    /\ op' = PtrCall("default_ctor", p, p)
    /\ ret' = "void"
    /\ UNCHANGED <<obj, resources, ptrFrame>>

\* sharedptr(T* ptr), called as sharedptr(new int(..))
Ptr_ctor(p) ==
    /\ obj = "sharedptr"
    /\ ptrs[p].state = "unborn"
    /\ Len(counters) < MaxCounters
    /\ Len(resources) < MaxResources
    /\ resources' = Append(resources, [frees |-> 0])
    /\ counters' = Append(counters, [count |-> 1, frees |-> 0])
    /\ ptrs' = [ptrs EXCEPT ![p] = [state |-> "alive",
                                    res |-> Len(resources) + 1,
                                    counter |-> Len(counters) + 1]]
    /\ op' = PtrCall("ctor", p, p)
    /\ ret' = "void"
    /\ UNCHANGED <<obj, ptrFrame>>

\* sharedptr(const sharedptr<T>& ptr)
Ptr_copy_ctor(p, other) ==
    /\ obj = "sharedptr"
    /\ ptrs[p].state = "unborn"
    /\ ptrs[other].state = "alive"
    /\ IF Ptr_dangling(ptrs[other])
       THEN PtrCrash("copy_ctor", p, other)
       ELSE /\ ptrs' = [ptrs EXCEPT ![p] = ptrs[other]]
            /\ counters' = Ptr_incrementcounter(counters, ptrs[other].counter)
            /\ op' = PtrCall("copy_ctor", p, other)
            /\ ret' = "void"
            /\ UNCHANGED <<obj, resources, ptrFrame>>

\* sharedptr(sharedptr<T>&& ptr)
Ptr_move_ctor(p, other) ==
    /\ obj = "sharedptr"
    /\ ptrs[p].state = "unborn"
    /\ ptrs[other].state = "alive"
    /\ ptrs' = [ptrs EXCEPT ![p] = ptrs[other],
                            ![other] = [@ EXCEPT !.res = nullptr,
                                                 !.counter = nullptr]]
    /\ op' = PtrCall("move_ctor", p, other)
    /\ ret' = "void"
    /\ UNCHANGED <<obj, counters, resources, ptrFrame>>

\* sharedptr<T>& operator=(const sharedptr<T>& ptr)
Ptr_copy_assign(p, other) ==
    LET d == Ptr_decrementcounter(ptrs[p], counters, resources)
    IN /\ obj = "sharedptr"
       /\ ptrs[p].state = "alive"
       /\ ptrs[other].state = "alive"
       /\ IF p = other
          THEN /\ op' = PtrCall("copy_assign", p, other)
               /\ ret' = "void"
               /\ UNCHANGED <<obj, ptrVars, ptrFrame>>
          ELSE IF Ptr_dangling(ptrs[p])
                  \/ (ptrs[other].counter # nullptr
                        /\ d.counters[ptrs[other].counter].frees > 0)
          THEN PtrCrash("copy_assign", p, other)
          ELSE /\ ptrs' = [ptrs EXCEPT ![p] = ptrs[other]]
               /\ counters' = Ptr_incrementcounter(d.counters,
                                                   ptrs[other].counter)
               /\ resources' = d.resources
               /\ op' = PtrCall("copy_assign", p, other)
               /\ ret' = "void"
               /\ UNCHANGED <<obj, ptrFrame>>

\* sharedptr<T>& operator=(sharedptr<T>&& ptr)
Ptr_move_assign(p, other) ==
    LET d == Ptr_decrementcounter(ptrs[p], counters, resources)
    IN /\ obj = "sharedptr"
       /\ ptrs[p].state = "alive"
       /\ ptrs[other].state = "alive"
       /\ IF p = other
          THEN /\ op' = PtrCall("move_assign", p, other)
               /\ ret' = "void"
               /\ UNCHANGED <<obj, ptrVars, ptrFrame>>
          ELSE IF Ptr_dangling(ptrs[p])
          THEN PtrCrash("move_assign", p, other)
          ELSE /\ ptrs' = [ptrs EXCEPT ![p] = ptrs[other],
                                       ![other] = [@ EXCEPT
                                                     !.res = nullptr,
                                                     !.counter = nullptr]]
               /\ counters' = d.counters
               /\ resources' = d.resources
               /\ op' = PtrCall("move_assign", p, other)
               /\ ret' = "void"
               /\ UNCHANGED <<obj, ptrFrame>>

\* reset() and reset(new int(..))
Ptr_reset(p, fresh) ==
    LET d == Ptr_decrementcounter(ptrs[p], counters, resources)
    IN /\ obj = "sharedptr"
       /\ ptrs[p].state = "alive"
       /\ IF Ptr_dangling(ptrs[p])
          THEN PtrCrash("reset", p, p)
          ELSE /\ Len(counters) < MaxCounters
               /\ fresh => Len(resources) < MaxResources
               /\ resources' = IF fresh
                               THEN Append(d.resources, [frees |-> 0])
                               ELSE d.resources
               /\ counters' = Append(d.counters,
                                     [count |-> IF fresh THEN 1 ELSE 0,
                                      frees |-> 0])
               /\ ptrs' = [ptrs EXCEPT ![p] =
                             [state |-> "alive",
                              res |-> IF fresh THEN Len(resources) + 1
                                      ELSE nullptr,
                              counter |-> Len(counters) + 1]]
               /\ op' = PtrCall("reset", p, p)
               /\ ret' = "void"
               /\ UNCHANGED <<obj, ptrFrame>>

Ptr_get_count(p) ==
    /\ obj = "sharedptr"
    /\ ptrs[p].state = "alive"
    /\ IF Ptr_dangling(ptrs[p])
       THEN PtrCrash("get_count", p, p)
       ELSE /\ ret' = IF ptrs[p].counter # nullptr
                      THEN counters[ptrs[p].counter].count
                      ELSE 0
            /\ op' = PtrCall("get_count", p, p)
            /\ UNCHANGED <<obj, ptrVars, ptrFrame>>

\* ~sharedptr()
Ptr_dtor(p) ==
    LET d == Ptr_decrementcounter(ptrs[p], counters, resources)
    IN /\ obj = "sharedptr"
       /\ ptrs[p].state = "alive"
       /\ IF Ptr_dangling(ptrs[p])
          THEN PtrCrash("dtor", p, p)
          ELSE /\ ptrs' = [ptrs EXCEPT ![p] = PtrUnborn]
               /\ counters' = d.counters
               /\ resources' = d.resources
               /\ op' = PtrCall("dtor", p, p)
               /\ ret' = "void"
               /\ UNCHANGED <<obj, ptrFrame>>

InitSharedPtr ==
    /\ obj = "sharedptr"
    /\ NoMap
    /\ NoSet
    /\ heap = <<>>
    /\ objs = [o \in ObjNames |-> Unborn]
    /\ bad_allocs = 0
    /\ NoLibs
    /\ op = PtrCall("start", 1, 1)
    /\ ret = "void"

NextSharedPtr ==
    \/ \E p \in PtrNames : Ptr_default(p)
    \/ \E p \in PtrNames : Ptr_ctor(p)
    \/ \E p, other \in PtrNames : Ptr_copy_ctor(p, other)
    \/ \E p, other \in PtrNames : Ptr_move_ctor(p, other)
    \/ \E p, other \in PtrNames : Ptr_copy_assign(p, other)
    \/ \E p, other \in PtrNames : Ptr_move_assign(p, other)
    \/ \E p \in PtrNames, fresh \in BOOLEAN : Ptr_reset(p, fresh)
    \/ \E p \in PtrNames : Ptr_get_count(p)
    \/ \E p \in PtrNames : Ptr_dtor(p)

SpecSharedPtr == InitSharedPtr /\ [][NextSharedPtr]_vars

\* ============================================================= MemoryPool
\* A program with one MemoryPool of pool_size_ >= 1 blocks.  A block pointer
\* is the number of the block, 1 .. pool_size_; nullptr is 0.  next[b] is
\* the first word of block b, where the free list keeps its link and where
\* the caller keeps its own data while it holds the block.
PoolSizes == 1..3

\* pre is the pool before the call, out the blocks handed out before it
PoolCall(name, ptr) ==
    [name |-> name, ptr |-> ptr, pre |-> pool, out |-> handed_out]

poolFrame == <<mapVars, setVars, objVars, queueVars, dequeVars, ptrVars>>

\* the blocks of the free list from block on, in order; steps bounds the
\* walk
RECURSIVE Pool_free_list(_, _, _)
Pool_free_list(next, block, steps) ==
    IF block = nullptr \/ steps = 0 THEN <<>>
    ELSE <<block>> \o Pool_free_list(next, next[block], steps - 1)

\* MemoryPool(block_size, pool_size)
Pool_ctor(pool_size) ==
    /\ pool = [pool_size_ |-> pool_size,
               free_list_ |-> 1,
               next |-> [i \in 1..pool_size |->
                           IF i < pool_size THEN i + 1 ELSE nullptr]]
    /\ handed_out = {}

\* mutant: free_list_ stays on the block returned
Pool_allocate_keeps_head ==
    /\ obj = "pool"
    /\ IF pool.free_list_ = nullptr
       THEN /\ ret' = "bad_alloc"
            /\ UNCHANGED <<pool, handed_out>>
       ELSE /\ ret' = pool.free_list_
            /\ handed_out' = handed_out \cup {pool.free_list_}
            /\ UNCHANGED pool
    /\ op' = PoolCall("allocate", nullptr)
    /\ UNCHANGED <<obj, poolFrame>>

Pool_allocate ==
    /\ obj = "pool"
    /\ IF pool.free_list_ = nullptr
       THEN /\ ret' = "bad_alloc"
            /\ UNCHANGED <<pool, handed_out>>
       ELSE /\ ret' = pool.free_list_
            /\ pool' = [pool EXCEPT !.free_list_ = pool.next[pool.free_list_]]
            /\ handed_out' = handed_out \cup {pool.free_list_}
    /\ op' = PoolCall("allocate", nullptr)
    /\ UNCHANGED <<obj, poolFrame>>

Pool_deallocate(ptr) ==
    /\ obj = "pool"
    /\ IF ptr = nullptr
       THEN /\ ret' = "void"
            /\ UNCHANGED <<pool, handed_out>>
       ELSE IF ptr < 1 \/ ptr > pool.pool_size_
       THEN /\ ret' = "invalid_argument"
            /\ UNCHANGED <<pool, handed_out>>
       ELSE /\ pool' = [pool EXCEPT !.next[ptr] = pool.free_list_,
                                    !.free_list_ = ptr]
            /\ handed_out' = handed_out \ {ptr}
            /\ ret' = "void"
    /\ op' = PoolCall("deallocate", ptr)
    /\ UNCHANGED <<obj, poolFrame>>

Pool_get_free_count ==
    /\ obj = "pool"
    /\ ret' = Len(Pool_free_list(pool.next, pool.free_list_,
                                 pool.pool_size_ + 1))
    /\ op' = PoolCall("get_free_count", nullptr)
    /\ UNCHANGED <<obj, poolVars, poolFrame>>

\* the caller writes into a block it holds
Pool_write(ptr, word) ==
    /\ obj = "pool"
    /\ ptr \in handed_out
    /\ pool' = [pool EXCEPT !.next[ptr] = word]
    /\ op' = PoolCall("write", ptr)
    /\ ret' = "void"
    /\ UNCHANGED <<obj, handed_out, poolFrame>>

InitPool ==
    /\ obj = "pool"
    /\ NoMap
    /\ NoSet
    /\ heap = <<>>
    /\ objs = [o \in ObjNames |-> Unborn]
    /\ bad_allocs = 0
    /\ NoQueue
    /\ NoDeque
    /\ NoPtr
    /\ \E n \in PoolSizes : Pool_ctor(n)
    /\ op = [name |-> "ctor", ptr |-> nullptr, pre |-> pool, out |-> {}]
    /\ ret = "void"

\* deallocate is given a block the caller holds, nullptr, or an address
\* behind the pool
NextPool ==
    \/ Pool_allocate
    \/ \E ptr \in handed_out \cup {nullptr, pool.pool_size_ + 1} :
          Pool_deallocate(ptr)
    \/ Pool_get_free_count
    \/ \E ptr \in handed_out, word \in 0..pool.pool_size_ :
          Pool_write(ptr, word)

SpecPool == InitPool /\ [][NextPool]_vars

\* ------------------------------------------------------------------ claims
\* C1: size() equals the number of entries stored across all buckets, which
\* equals the number of distinct keys present, for the map and for the set.
C1_SizeIsEntryCount ==
    /\ obj = "map" =>
          /\ size_ = Len(MapPairs)
          /\ size_ = Cardinality(MapKeys)
    /\ obj = "set" =>
          /\ set_size_ = Len(SetElements)
          /\ set_size_ = Cardinality(SetKeys)

\* an erase has removed one of three entries of a map that has rehashed
C1_Witness ==
    /\ obj = "map"
    /\ op.name = "erase"
    /\ op.pre_size = 3
    /\ size_ = 2
    /\ bucket_count_ = 8

\* C2: every stored entry lies in the bucket whose index is hash(key) mod
\* the current bucket_count, and there are bucket_count buckets.
C2_EntryInHashedBucket ==
    /\ obj = "map" =>
          /\ Len(buckets) = bucket_count_
          /\ \A i \in 1..Len(buckets) : \A j \in 1..Len(buckets[i]) :
                StdHash(buckets[i][j].key) % bucket_count_ = i - 1
    /\ obj = "set" =>
          /\ Len(set_buckets) = set_bucket_count_
          /\ \A i \in 1..Len(set_buckets) : \A j \in 1..Len(set_buckets[i]) :
                StdHash(set_buckets[i][j]) % set_bucket_count_ = i - 1

\* max_load_factor has rehashed four entries from 4 buckets into 9
C2_Witness ==
    /\ obj = "map"
    /\ op.name = "max_load_factor"
    /\ op.pre_bc = 4
    /\ bucket_count_ = 9
    /\ size_ = 4

\* C3: no two stored entries have equal keys.
C3_KeysUnique ==
    /\ obj = "map" =>
          \A i, j \in 1..Len(MapPairs) :
             MapPairs[i].key = MapPairs[j].key => i = j
    /\ obj = "set" =>
          \A i, j \in 1..Len(SetElements) :
             SetElements[i] = SetElements[j] => i = j

\* an insert of a key that is second in its bucket has been rejected
C3_Witness ==
    /\ obj = "map"
    /\ op.name = "insert"
    /\ ret = FALSE
    /\ Map_find_in_bucket(buckets, op.key, Map_hash(op.key, bucket_count_)) = 2

\* C4: for every key present in a map, a lookup yields the value last
\* written for it by insert, insert_or_assign or through operator[].
C4_LookupYieldsLastWritten ==
    obj = "map" => \A k \in MapKeys : Map_lookup(k) = written[k]

\* C5: right after a call that increased size(), load_factor() <=
\* max_load_factor.
C5_LoadFactorBoundedAfterInsert ==
    /\ (obj = "map" /\ op.name \in InsertCalls /\ size_ > op.pre_size) =>
          ~FloatGT(Map_load_factor(size_, bucket_count_), max_load_factor_)
    /\ (obj = "set" /\ op.name = "insert" /\ set_size_ > op.pre_size) =>
          ~FloatGT(Set_load_factor(set_size_, set_bucket_count_),
                   set_max_load_factor_)

ShrinkForced ==
    /\ op.name = "max_load_factor"
    /\ \/ /\ obj = "map"
          /\ FloatGT(<<op.pre_size, op.pre_bc>>, max_load_factor_)
       \/ /\ obj = "set"
          /\ FloatGT(<<op.pre_size, op.pre_bc>>, set_max_load_factor_)

\* C7 as stated: after a max_load_factor(f) call that forced a rehash,
\* bucket_count() = ceil(size / f) + 1.
C7_ShrinkTargetIsCeilPlusOne ==
    ShrinkForced =>
       /\ obj = "map" => bucket_count_ = CeilDiv(size_, max_load_factor_) + 1
       /\ obj = "set" =>
             set_bucket_count_ = CeilDiv(set_size_, set_max_load_factor_) + 1

\* C7 amended: after a max_load_factor(f) call that forced a rehash,
\* bucket_count() = floor(size / f) + 1, that is
\* bucket_count - 1 <= size / f < bucket_count.
C7_ShrinkTargetIsFloorPlusOne ==
    ShrinkForced =>
       /\ obj = "map" =>
             /\ (bucket_count_ - 1) * max_load_factor_[1]
                   <= size_ * max_load_factor_[2]
             /\ size_ * max_load_factor_[2]
                   < bucket_count_ * max_load_factor_[1]
       /\ obj = "set" =>
             /\ (set_bucket_count_ - 1) * set_max_load_factor_[1]
                   <= set_size_ * set_max_load_factor_[2]
             /\ set_size_ * set_max_load_factor_[2]
                   < set_bucket_count_ * set_max_load_factor_[1]

\* a forced rehash with size / f not a whole number
C7_Witness ==
    /\ ShrinkForced
    /\ obj = "map"
    /\ (size_ * max_load_factor_[2]) % max_load_factor_[1] # 0
    /\ size_ = 2
    /\ bucket_count_ = 3

\* C8: on a table of 4 elements and 4 buckets, max_load_factor(0.5) leaves
\* bucket_count() = 9 (and the 4 elements).
C8_ScenarioD ==
    /\ (/\ obj = "map"
        /\ op.name = "max_load_factor"
        /\ max_load_factor_ = <<1, 2>>
        /\ op.pre_size = 4
        /\ op.pre_bc = 4) => (bucket_count_ = 9 /\ Len(MapPairs) = 4)
    /\ (/\ obj = "set"
        /\ op.name = "max_load_factor"
        /\ set_max_load_factor_ = <<1, 2>>
        /\ op.pre_size = 4
        /\ op.pre_bc = 4) => (set_bucket_count_ = 9 /\ Len(SetElements) = 4)

\* max_load_factor(0.5) has been called on a map of 4 elements and 4 buckets
C8_Witness ==
    /\ obj = "map"
    /\ op.name = "max_load_factor"
    /\ max_load_factor_ = <<1, 2>>
    /\ op.pre_size = 4
    /\ op.pre_bc = 4
    /\ MapKeys = Keys

\* C9: map insert(k, v) returns true exactly when k was absent; on a present
\* key it returns false and changes no entry, size() or bucket_count().
C9_InsertRejectsDuplicate ==
    [][(obj = "map" /\ op'.name = "insert") =>
          /\ ret' = (op'.key \notin MapKeys)
          /\ op'.key \in MapKeys =>
                /\ buckets' = buckets
                /\ size_' = size_
                /\ bucket_count_' = bucket_count_
      ]_vars

\* insert(k, v2) has returned false and k still has another value
C9_Witness ==
    /\ obj = "map"
    /\ op.name = "insert"
    /\ ret = FALSE
    /\ Map_lookup(op.key) # NoValue
    /\ Map_lookup(op.key) # op.value

\* the keys of the buckets, position by position
KeyLayout(bkts) ==
    [i \in 1..Len(bkts) |-> [j \in 1..Len(bkts[i]) |-> bkts[i][j].key]]

\* C10: insert_or_assign(k, v2) on a present key changes neither size() nor
\* bucket_count(), moves no entry, and leaves v2 stored for k and every
\* other value as it was.
C10_AssignOnPresentKey ==
    [][(obj = "map" /\ op'.name = "insert_or_assign" /\ op'.key \in MapKeys) =>
          /\ size_' = size_
          /\ bucket_count_' = bucket_count_
          /\ KeyLayout(buckets') = KeyLayout(buckets)
          /\ Map_lookup_in(buckets', bucket_count_', op'.key) = op'.value
          /\ \A k \in MapKeys \ {op'.key} :
                Map_lookup_in(buckets', bucket_count_', k) = Map_lookup(k)
      ]_vars

\* insert_or_assign has assigned to a key stored behind another in its bucket
C10_Witness ==
    /\ obj = "map"
    /\ op.name = "insert_or_assign"
    /\ op.pre_size = size_
    /\ Map_find_in_bucket(buckets, op.key, Map_hash(op.key, bucket_count_)) = 2
    /\ Map_lookup(op.key) = op.value

\* C11: operator[] on an absent key stores the key with Value(), adds
\* exactly 1 to size() and makes contains(key) true, and the program goes on;
\* on a present key it changes neither size() nor any stored entry.
C11_AccessInsertsDefault ==
    [][(obj = "map" /\ op'.name = "subscript") =>
          IF op'.key \in MapKeys
          THEN /\ obj' = "map"
               /\ size_' = size_
               /\ buckets' = buckets
          ELSE /\ obj' = "map"
               /\ size_' = size_ + 1
               /\ Map_lookup_in(buckets', bucket_count_', op'.key) = DefaultValue
      ]_vars

\* C12: after `map[k] = v` on an absent key, growth rehash or not, the
\* program goes on and a lookup of k yields v.
C12_HandleRefersToStoredEntry ==
    [][(obj = "map" /\ op'.name = "subscript_assign" /\ op'.key \notin MapKeys) =>
          /\ obj' = "map"
          /\ Map_lookup_in(buckets', bucket_count_', op'.key) = op'.value
      ]_vars

\* C13: once every key that was inserted has been erased again, whatever
\* the order of the erase calls and whatever rehashes the inserts caused,
\* size() is 0 and contains(k) is false for every key, in the map and in
\* the set.
C13_EraseAllLeavesEmpty ==
    /\ (obj = "map" /\ \A k \in Keys : written[k] = NoValue) =>
          /\ size_ = 0
          /\ \A k \in Keys :
                Map_find_in_bucket(buckets, k, Map_hash(k, bucket_count_)) = 0
    /\ (obj = "set" /\ set_inserted = {}) =>
          /\ set_size_ = 0
          /\ \A k \in Keys :
                Set_find_in_bucket(set_buckets, k,
                                   Set_hash(k, set_bucket_count_)) = 0

\* the last of the inserted keys has been erased from a map that the
\* inserts had grown from 4 to 8 buckets
C13_Witness ==
    /\ obj = "map"
    /\ op.name = "erase"
    /\ ret = TRUE
    /\ op.pre_size = 1
    /\ bucket_count_ = 8
    /\ \A k \in Keys : written[k] = NoValue

\* C14: erase(k) on a present key returns true, removes the entry of k and
\* no other, takes 1 from size(), leaves every other key with its value and
\* leaves bucket_count() as it was (as in scenario A: three keys, one
\* erased, two left).
C14_EraseRemovesOnlyItsKey ==
    [][/\ (obj = "map" /\ op'.name = "erase" /\ op'.key \in MapKeys) =>
              /\ ret' = TRUE
              /\ size_' = size_ - 1
              /\ bucket_count_' = bucket_count_
              /\ MapKeys' = MapKeys \ {op'.key}
              /\ Map_lookup_in(buckets', bucket_count_', op'.key) = NoValue
              /\ \A k \in MapKeys \ {op'.key} :
                    Map_lookup_in(buckets', bucket_count_', k) = Map_lookup(k)
       /\ (obj = "set" /\ op'.name = "erase" /\ op'.key \in SetKeys) =>
              /\ ret' = TRUE
              /\ set_size_' = set_size_ - 1
              /\ set_bucket_count_' = set_bucket_count_
              /\ SetKeys' = SetKeys \ {op'.key}
      ]_vars

\* scenario A: of three keys in a default-constructed map one has been
\* erased; it is not found, the two others are
C14_Witness ==
    /\ obj = "map"
    /\ op.name = "erase"
    /\ ret = TRUE
    /\ op.pre_size = 3
    /\ size_ = 2
    /\ bucket_count_ = DefaultBucketCount
    /\ Map_lookup(op.key) = NoValue
    /\ Cardinality(MapKeys) = 2

\* C15: erase(k) and contains(k) on an absent key return false, the program
\* goes on, and size(), bucket_count() and every stored entry are as before.
C15_AbsentKeyIsNormalResult ==
    [][/\ (/\ obj = "map"
           /\ op'.name \in {"erase", "contains"}
           /\ op'.key \notin MapKeys) =>
              /\ ret' = FALSE
              /\ obj' = "map"
              /\ buckets' = buckets
              /\ size_' = size_
              /\ bucket_count_' = bucket_count_
       /\ (/\ obj = "set"
           /\ op'.name \in {"erase", "contains"}
           /\ op'.key \notin SetKeys) =>
              /\ ret' = FALSE
              /\ obj' = "set"
              /\ set_buckets' = set_buckets
              /\ set_size_' = set_size_
              /\ set_bucket_count_' = set_bucket_count_
      ]_vars

\* erase of an absent key has returned false on a map whose bucket for that
\* key holds another key
C15_Witness ==
    /\ obj = "map"
    /\ op.name = "erase"
    /\ ret = FALSE
    /\ op.pre_size = size_
    /\ buckets[Map_hash(op.key, bucket_count_) + 1] # <<>>
    /\ Map_lookup(op.key) = NoValue

\* C16: clear() empties every bucket and sets size() to 0, leaves
\* bucket_count() and max_load_factor as they were, no key is found
\* afterwards, and an insert that follows it is accepted.
C16_ClearEmptiesAndKeepsBuckets ==
    [][/\ (obj = "map" /\ op'.name = "clear") =>
              /\ size_' = 0
              /\ bucket_count_' = bucket_count_
              /\ max_load_factor_' = max_load_factor_
              /\ buckets' = [i \in 1..bucket_count_ |-> <<>>]
              /\ \A k \in Keys :
                    Map_lookup_in(buckets', bucket_count_', k) = NoValue
       /\ (obj = "map" /\ op.name = "clear" /\ op'.name = "insert") =>
              /\ ret' = TRUE
              /\ size_' = 1
              /\ Map_lookup_in(buckets', bucket_count_', op'.key) = op'.value
       /\ (obj = "set" /\ op'.name = "clear") =>
              /\ set_size_' = 0
              /\ set_bucket_count_' = set_bucket_count_
              /\ set_max_load_factor_' = set_max_load_factor_
              /\ set_buckets' = [i \in 1..set_bucket_count_ |-> <<>>]
       /\ (obj = "set" /\ op.name = "clear" /\ op'.name = "insert") =>
              /\ ret' = TRUE
              /\ set_size_' = 1
              /\ op'.key \in SetKeys'
      ]_vars

\* clear has emptied a map of 3 entries that had grown to 8 buckets under
\* max_load_factor 0.5
C16_Witness ==
    /\ obj = "map"
    /\ op.name = "clear"
    /\ op.pre_size = 3
    /\ size_ = 0
    /\ bucket_count_ = 8
    /\ max_load_factor_ = <<1, 2>>
    /\ MapPairs = <<>>

\* C17: bucket_count() >= 1 in every state of a map or set, whatever the
\* constructor call and the calls after it (no object of SpecAnyArgs is
\* moved from).
C17_BucketCountAtLeastOne ==
    /\ obj = "map" => bucket_count_ >= 1
    /\ obj = "set" => set_bucket_count_ >= 1

\* C18: a bucket count of 0 and a load factor <= 0 are rejected by the call
\* that is given them: no constructor call leaves bucket_count() = 0 and no
\* object has a max_load_factor that is not positive.
C18_InvalidArgumentsRejected ==
    /\ obj = "map" =>
          /\ op.name = "ctor" => op.pre_bc # 0
          /\ max_load_factor_[1] > 0
    /\ obj = "set" =>
          /\ op.name = "ctor" => op.pre_bc # 0
          /\ set_max_load_factor_[1] > 0

\* what the calls on an object show of it: its counts, its factor and the
\* entries of its table, bucket by bucket (none without bucket storage)
Observed(h, ob) ==
    [size_ |-> ob.size_, bucket_count_ |-> ob.bucket_count_,
     max_load_factor_ |-> ob.max_load_factor_,
     table |-> IF ob.buckets = nullptr THEN <<>> ELSE h[ob.buckets].vec]

\* C19: an object made by the copy constructor or by copy assignment has
\* the entries, size, bucket_count and max_load_factor of its source, in
\* bucket storage of its own, and the source is as it was; an insert,
\* erase, clear or max_load_factor call on one object (rehashes included)
\* changes nothing that is observed through another.
C19_CopyIsDeep ==
    [][/\ (/\ op'.name \in {"copy_ctor", "copy_assign"}
           /\ op'.dst # op'.src
           /\ obj' # "crashed") =>
              /\ Observed(heap', objs'[op'.dst]) = Observed(heap, objs[op'.src])
              /\ Observed(heap', objs'[op'.src]) = Observed(heap, objs[op'.src])
              /\ objs'[op'.dst].buckets # objs'[op'.src].buckets
              /\ heap'[objs'[op'.dst].buckets].frees = 0
              /\ heap'[objs'[op'.src].buckets].frees = 0
       /\ op'.name \in {"insert", "erase", "clear", "max_load_factor"} =>
              \A o \in ObjNames \ {op'.dst} :
                 objs[o].state = "alive" =>
                    /\ objs'[o] = objs[o]
                    /\ Observed(heap', objs'[o]) = Observed(heap, objs[o])
      ]_vars

\* copy assignment has given an object the two entries and the two buckets
\* of a source that had rehashed, in a vector of its own
C19_Witness ==
    /\ op.name = "copy_assign"
    /\ op.dst # op.src
    /\ obj # "crashed"
    /\ objs[op.dst].size_ = 2
    /\ objs[op.dst].bucket_count_ = 2
    /\ objs[op.dst].buckets # objs[op.src].buckets
    /\ Len(Flatten(heap[objs[op.dst].buckets].vec)) = 2
    /\ heap[objs[op.dst].buckets].vec = heap[objs[op.src].buckets].vec

\* C20: move construction and move assignment give the destination the
\* table, size, bucket_count and max_load_factor the source had, and leave
\* the source with size 0, bucket_count 0 and no bucket storage; every
\* vector not yet deleted belongs to exactly one object, none is deleted
\* twice, and when no object is left every vector has been deleted once.
C20_MoveTransfersOwnership ==
    [][/\ (op'.name \in {"move_ctor", "move_assign"} /\ op'.dst # op'.src) =>
              /\ Observed(heap', objs'[op'.dst]) = Observed(heap, objs[op'.src])
              /\ objs'[op'.dst].buckets = objs[op'.src].buckets
              /\ objs'[op'.src].size_ = 0
              /\ objs'[op'.src].bucket_count_ = 0
              /\ objs'[op'.src].buckets = nullptr
       /\ \A p \in 1..Len(heap') :
              /\ heap'[p].frees <= 1
              /\ heap'[p].frees = 0 =>
                    Cardinality({o \in ObjNames :
                                   /\ objs'[o].state = "alive"
                                   /\ objs'[o].buckets = p}) = 1
       /\ (\A o \in ObjNames : objs'[o].state # "alive") =>
              \A p \in 1..Len(heap') : heap'[p].frees = 1
      ]_vars

\* move assignment has handed over a rehashed table of two entries: the
\* source is left without storage, the vector the destination had before
\* is deleted, the moved one is not
C20_Witness ==
    /\ op.name = "move_assign"
    /\ op.dst # op.src
    /\ objs[op.src].buckets = nullptr
    /\ objs[op.src].bucket_count_ = 0
    /\ objs[op.dst].size_ = 2
    /\ objs[op.dst].bucket_count_ = 2
    /\ heap[objs[op.dst].buckets].frees = 0
    /\ Len(Flatten(heap[objs[op.dst].buckets].vec)) = 2
    /\ \E p \in 1..Len(heap) : heap[p].frees = 1

\* C21: copy assignment and move assignment of an object to itself change
\* nothing: its entries, size, bucket_count and max_load_factor are as
\* before and its bucket vector is not deleted.
C21_SelfAssignmentIsNoOp ==
    [][(op'.name \in {"copy_assign", "move_assign"} /\ op'.dst = op'.src) =>
          /\ obj' = obj
          /\ objs' = objs
          /\ heap' = heap
          /\ Observed(heap', objs'[op'.dst]) = Observed(heap, objs[op'.dst])
      ]_vars

\* an object holding two entries in a vector it has rehashed into has been
\* move-assigned to itself and still has them
C21_Witness ==
    /\ op.name = "move_assign"
    /\ op.dst = op.src
    /\ obj # "crashed"
    /\ objs[op.dst].size_ = 2
    /\ objs[op.dst].bucket_count_ = 2
    /\ heap[objs[op.dst].buckets].frees = 0
    /\ Len(Flatten(heap[objs[op.dst].buckets].vec)) = 2

\* the bucket an entry of an object's table belongs in
Obj_hash(e, bucket_count) ==
    IF obj = "map" THEN Map_hash(e.key, bucket_count)
    ELSE Set_hash(e, bucket_count)

\* the vector at `p` is a whole table of `bucket_count` buckets holding
\* `size` entries, each in the bucket its key hashes to
WholeTable(h, p, size, bucket_count) ==
    /\ h[p].frees = 0
    /\ Len(h[p].vec) = bucket_count
    /\ Len(Flatten(h[p].vec)) = size
    /\ \A i \in 1..bucket_count : \A j \in 1..Len(h[p].vec[i]) :
          Obj_hash(h[p].vec[i][j], bucket_count) = i - 1

\* a vector no object points to and no delete was applied to
Leaked(h, obs, p) ==
    /\ h[p].frees = 0
    /\ \A o \in ObjNames : obs[o].buckets # p

\* C22: when an allocation fails during an insert or a max_load_factor call
\* (in emplace_back, in the `new` of rehash or in a push_back of rehash), the
\* call reports std::bad_alloc, and the object keeps its bucket array and its
\* bucket_count: the array is not deleted, every entry it held is still in
\* its bucket at its place, and the array is a whole table for the object's
\* size and bucket_count, so nothing of the array that rehash was filling is
\* seen through the object.
C22_FailedRehashKeepsOldArray ==
    [][(op'.name \in {"insert", "max_load_factor"} /\ bad_allocs' # bad_allocs) =>
          LET o == op'.dst
              p == objs[o].buckets
          IN /\ ret' = "bad_alloc"
             /\ obj' = obj
             /\ objs'[o].buckets = p
             /\ objs'[o].bucket_count_ = objs[o].bucket_count_
             /\ \A i \in 1..Len(heap[p].vec) :
                   SubSeq(heap'[p].vec[i], 1, Len(heap[p].vec[i])) =
                      heap[p].vec[i]
             /\ WholeTable(heap', p, objs'[o].size_, objs'[o].bucket_count_)
             /\ \A q \in ObjNames : q # o => objs'[q] = objs[q]
      ]_vars

\* max_load_factor(0.5) on two entries in two buckets was left by
\* std::bad_alloc after its rehash had copied one entry: the object holds
\* both entries in its two buckets, and the vector of five buckets that
\* rehash was filling is on the heap
C22_Witness ==
    /\ op.name = "max_load_factor"
    /\ ret = "bad_alloc"
    /\ objs[op.dst].size_ = 2
    /\ objs[op.dst].bucket_count_ = 2
    /\ objs[op.dst].max_load_factor_ = <<1, 2>>
    /\ Len(Flatten(heap[objs[op.dst].buckets].vec)) = 2
    /\ \E p \in 1..Len(heap) :
          /\ Leaked(heap, objs, p)
          /\ Len(heap[p].vec) = 5
          /\ Len(Flatten(heap[p].vec)) = 1

\* C23: every bucket array that `new` returned is deleted at most once in
\* every reachable state, and exactly once when no object is alive any more,
\* across construction, rehash, copy, move, assignment and destruction.
C23_EveryArrayReleasedOnce ==
    /\ \A p \in 1..Len(heap) : heap[p].frees <= 1
    /\ (\A o \in ObjNames : objs[o].state # "alive") =>
          \A p \in 1..Len(heap) : heap[p].frees = 1

\* C24: set insert(key) returns true exactly when key was absent, and then
\* size() grows by 1 and key is stored beside the keys stored before; on a
\* present key it returns false and changes neither size(), bucket_count()
\* nor any bucket.
C24_SetInsertRejectsDuplicate ==
    [][(obj = "set" /\ op'.name = "insert") =>
          /\ ret' = (op'.key \notin SetKeys)
          /\ op'.key \notin SetKeys =>
                /\ set_size_' = set_size_ + 1
                /\ SetKeys' = SetKeys \cup {op'.key}
          /\ op'.key \in SetKeys =>
                /\ set_buckets' = set_buckets
                /\ set_size_' = set_size_
                /\ set_bucket_count_' = set_bucket_count_
      ]_vars

\* insert of a stored key has returned false on a set of three keys
C24_Witness ==
    /\ obj = "set"
    /\ op.name = "insert"
    /\ ret = FALSE
    /\ op.key \in SetKeys
    /\ set_size_ = 3
    /\ Len(SetElements) = 3

Lookups == {"contains", "size", "empty", "bucket_count", "load_factor"}

\* C25: contains(k), size(), empty(), bucket_count() and load_factor() change
\* nothing, on the map and on the set, for a key that is stored and for one
\* that is not: the buckets with their entries, size, bucket_count and
\* max_load_factor are after the call what they were before it.
C25_LookupsChangeNothing ==
    [][op'.name \in Lookups =>
          /\ obj' = obj
          /\ buckets' = buckets
          /\ size_' = size_
          /\ bucket_count_' = bucket_count_
          /\ max_load_factor_' = max_load_factor_
          /\ set_buckets' = set_buckets
          /\ set_size_' = set_size_
          /\ set_bucket_count_' = set_bucket_count_
          /\ set_max_load_factor_' = set_max_load_factor_
      ]_vars

\* contains(k) has returned false for a key that is not among the three
\* stored in the map
C25_Witness ==
    /\ obj = "map"
    /\ op.name = "contains"
    /\ ret = FALSE
    /\ op.key \notin MapKeys
    /\ size_ = 3
    /\ Len(MapPairs) = 3

\* C26: a map or set that was just constructed has size 0, max_load_factor
\* 1.0 and as many buckets, all empty, as the constructor was given: 10 for
\* the default constructor, n for the constructor called with n > 0.
C26_ConstructedEmpty ==
    op.name = "ctor" =>
        /\ op.pre_bc \in CtorBucketCounts \cup {10}
        /\ obj = "map" =>
              /\ size_ = 0
              /\ bucket_count_ = op.pre_bc
              /\ max_load_factor_ = <<1, 1>>
              /\ buckets = [i \in 1..op.pre_bc |-> <<>>]
        /\ obj = "set" =>
              /\ set_size_ = 0
              /\ set_bucket_count_ = op.pre_bc
              /\ set_max_load_factor_ = <<1, 1>>
              /\ set_buckets = [i \in 1..op.pre_bc |-> <<>>]

\* a map constructed with 4 buckets
C26_Witness ==
    /\ obj = "map"
    /\ op.name = "ctor"
    /\ op.pre_bc = 4
    /\ bucket_count_ = 4
    /\ size_ = 0
    /\ Len(buckets) = 4

\* C27: max_load_factor(f) called with load_factor() <= f stores f and does
\* nothing else: no bucket, no entry's place, neither size nor bucket_count
\* changes; and erase, clear and the lookups never change bucket_count
\* (map and set).
C27_NoRehashWithinFactor ==
    [][/\ (obj = "map" /\ op'.name = "max_load_factor"
             /\ ~FloatGT(Map_load_factor(size_, bucket_count_),
                         max_load_factor_')) =>
             /\ buckets' = buckets
             /\ size_' = size_
             /\ bucket_count_' = bucket_count_
       /\ (obj = "set" /\ op'.name = "max_load_factor"
             /\ ~FloatGT(Set_load_factor(set_size_, set_bucket_count_),
                         set_max_load_factor_')) =>
             /\ set_buckets' = set_buckets
             /\ set_size_' = set_size_
             /\ set_bucket_count_' = set_bucket_count_
       /\ op'.name \in {"erase", "clear"} \cup Lookups =>
             /\ bucket_count_' = bucket_count_
             /\ set_bucket_count_' = set_bucket_count_
      ]_vars

\* max_load_factor(0.5) on a map of two entries in four buckets, whose load
\* factor is just 0.5: both entries in four buckets afterwards
C27_Witness ==
    /\ obj = "map"
    /\ op.name = "max_load_factor"
    /\ max_load_factor_ = <<1, 2>>
    /\ op.pre_size = 2
    /\ op.pre_bc = 4
    /\ size_ = 2
    /\ bucket_count_ = 4
    /\ Len(MapPairs) = 2

\* C28: a step that rehashes (bucket_count changes), made by an inserting
\* call or by max_load_factor, keeps every entry: the keys stored afterwards
\* are the keys stored before (and the key the call inserted), every key
\* stored before has the value it had, and size() and the number of entries
\* in the buckets grew by the inserted entry only (map and set).
C28_RehashKeepsEveryEntry ==
    [][/\ (obj = "map" /\ bucket_count_' # bucket_count_) =>
             LET added == IF op'.name \in InsertCalls THEN {op'.key} \ MapKeys
                          ELSE {}
             IN /\ MapKeys' = MapKeys \cup added
                /\ \A k \in MapKeys :
                      Map_lookup_in(buckets', bucket_count_', k) = Map_lookup(k)
                /\ size_' = size_ + Cardinality(added)
                /\ Len(MapPairs') = Len(MapPairs) + Cardinality(added)
                /\ Len(buckets') = bucket_count_'
       /\ (obj = "set" /\ set_bucket_count_' # set_bucket_count_) =>
             LET added == IF op'.name = "insert" THEN {op'.key} \ SetKeys
                          ELSE {}
             IN /\ SetKeys' = SetKeys \cup added
                /\ set_size_' = set_size_ + Cardinality(added)
                /\ Len(SetElements') = Len(SetElements) + Cardinality(added)
                /\ Len(set_buckets') = set_bucket_count_'
      ]_vars

\* max_load_factor(0.5) has rehashed a map of three entries from four
\* buckets into seven, and the three keys have their values
C28_Witness ==
    /\ obj = "map"
    /\ op.name = "max_load_factor"
    /\ op.pre_bc = 4
    /\ op.pre_size = 3
    /\ bucket_count_ = 7
    /\ size_ = 3
    /\ Len(MapPairs) = 3
    /\ Cardinality(MapKeys) = 3
    /\ \A k \in MapKeys : Map_lookup(k) = written[k]

\* C29: in every reachable state every bucket holds its entries in the order
\* in which their keys were inserted; under SpecOrder that is the order of
\* their values.
C29_BucketsInInsertionOrder ==
    \A i \in 1..Len(buckets) : \A j \in 1..Len(buckets[i]) :
        \A l \in 1..Len(buckets[i]) :
            j < l => buckets[i][j].value < buckets[i][l].value

\* C30: in the state a max_load_factor(f) call with f > 0 leaves,
\* load_factor() <= f, whether the call rehashed or not (map and set).
C30_LoadFactorWithinAfterSet ==
    op.name = "max_load_factor" =>
        /\ obj = "map" =>
              /\ FloatGT(max_load_factor_, <<0, 1>>)
              /\ ~FloatGT(Map_load_factor(size_, bucket_count_),
                          max_load_factor_)
        /\ obj = "set" =>
              /\ FloatGT(set_max_load_factor_, <<0, 1>>)
              /\ ~FloatGT(Set_load_factor(set_size_, set_bucket_count_),
                          set_max_load_factor_)

\* max_load_factor(0.25) has rehashed a set of two keys into nine buckets
C30_Witness ==
    /\ obj = "set"
    /\ op.name = "max_load_factor"
    /\ set_max_load_factor_ = <<1, 4>>
    /\ set_size_ = 2
    /\ op.pre_bc # 9
    /\ set_bucket_count_ = 9
    /\ Len(SetElements) = 2

\* C31: bucket_count() never decreases over insert, insert_or_assign,
\* operator[], erase, clear and max_load_factor(f > 0), on a map and on a
\* set; every rehash strictly increases it, the one of max_load_factor
\* included; one insert rehashes at most once, to twice the count.
C31_BucketCountNeverDecreases ==
    [][/\ bucket_count_' >= bucket_count_
       /\ set_bucket_count_' >= set_bucket_count_
       /\ (obj = "map" /\ op'.name = "max_load_factor"
             /\ FloatGT(Map_load_factor(size_, bucket_count_),
                        max_load_factor_')) =>
             bucket_count_' > bucket_count_
       /\ (obj = "set" /\ op'.name = "max_load_factor"
             /\ FloatGT(Set_load_factor(set_size_, set_bucket_count_),
                        set_max_load_factor_')) =>
             set_bucket_count_' > set_bucket_count_
       /\ (obj = "map" /\ op'.name \in InsertCalls) =>
             /\ bucket_count_' \in {bucket_count_, 2 * bucket_count_}
             /\ (size_' > size_
                   /\ Map_exceeds(size_', bucket_count_, max_load_factor_)) =>
                   bucket_count_' > bucket_count_
       /\ (obj = "set" /\ op'.name = "insert") =>
             /\ set_bucket_count_' \in {set_bucket_count_,
                                        2 * set_bucket_count_}
             /\ (set_size_' > set_size_
                   /\ Set_exceeds(set_size_', set_bucket_count_,
                                  set_max_load_factor_)) =>
                   set_bucket_count_' > set_bucket_count_
      ]_vars

\* max_load_factor(0.5) on a map of three entries in four buckets has
\* rehashed it to seven buckets
C31_Witness ==
    /\ obj = "map"
    /\ op.name = "max_load_factor"
    /\ max_load_factor_ = <<1, 2>>
    /\ op.pre_size = 3
    /\ op.pre_bc = 4
    /\ bucket_count_ = 7


\* C33: after a copy assignment whose allocation of the new bucket vector
\* failed, the destination's bucket pointer refers to a vector that is not
\* deleted and that holds size entries in bucket_count buckets.
C33_FailedCopyAssignLeavesValid ==
    (/\ obj \in {"map", "set"}
     /\ op.name = "copy_assign"
     /\ ret = "bad_alloc") =>
        /\ objs[op.dst].state = "alive"
        /\ objs[op.dst].buckets # nullptr
        /\ WholeTable(heap, objs[op.dst].buckets, objs[op.dst].size_,
                      objs[op.dst].bucket_count_)

\* C32: a set and a map built with the same bucket count and given the same
\* calls (insert, erase, clear, max_load_factor) return the same values and
\* agree, after every step, on size(), on bucket_count() and on contains(k)
\* for every k.
C32_SetIsKeySetOfMap ==
    obj = "map and set" =>
       /\ ret[1] = ret[2]
       /\ size_ = set_size_
       /\ bucket_count_ = set_bucket_count_
       /\ \A k \in Keys :
             (Map_find_in_bucket(buckets, k, Map_hash(k, bucket_count_)) # 0)
               = (Set_find_in_bucket(set_buckets, k,
                                     Set_hash(k, set_bucket_count_)) # 0)

\* both grew from one bucket to eight and shrank by an erase: three keys in
\* the map and in the set, the erased one in neither
C32_Witness ==
    /\ obj = "map and set"
    /\ op.name = "erase"
    /\ ret = <<TRUE, TRUE>>
    /\ bucket_count_ = 8
    /\ set_bucket_count_ = 8
    /\ size_ = 3
    /\ set_size_ = 3
    /\ Map_find_in_bucket(buckets, op.key, Map_hash(op.key, bucket_count_)) = 0
    /\ Set_find_in_bucket(set_buckets, op.key,
                          Set_hash(op.key, set_bucket_count_)) = 0

\* the elements a Queue holds, from front_ on, as far as they were written
Queue_contents(q) ==
    [i \in 1..q.size_ |-> q.data[((q.front_ + (i - 1)) % q.capacity_) + 1]]

C35_CopyHoldsSameSequence ==
    (/\ obj = "queue"
     /\ op.name = "front"
     /\ op.q = 2
     /\ queue_elems[2] # <<>>) =>
        ret = Head(queue_elems[2])

\* C36: whenever the Deque made by the default or the capacity constructor
\* holds an element, over push_front, push_back, pop_front, pop_back and
\* clear, front_ and rear_ are indices of the array, front() returns the
\* first element of the sequence and back() the last.
C36_DequeEndsInsideArray ==
    (obj = "deque" /\ deque.size_ > 0) =>
       /\ deque.front_ < deque.capacity_
       /\ deque.rear_ < deque.capacity_
       /\ op.name = "front" => ret = Head(deque_elems)
       /\ op.name = "back" => ret = deque_elems[Len(deque_elems)]

\* the live sharedptr objects that share the control block of p
Sharers(p) ==
    {q \in PtrNames : ptrs[q].state = "alive"
                        /\ ptrs[q].counter = ptrs[p].counter}

\* the live sharedptr objects that refer to resource r
Owners(r) == {q \in PtrNames : ptrs[q].state = "alive" /\ ptrs[q].res = r}

\* C37: for every live sharedptr that has a control block, default-
\* constructed and reset to null included, get_count() is the number of live
\* sharedptr objects that share the block.
C37_CountIsNumberOfSharers ==
    obj = "sharedptr" =>
       \A p \in PtrNames :
          (ptrs[p].state = "alive" /\ ptrs[p].counter # nullptr) =>
             counters[ptrs[p].counter].count = Cardinality(Sharers(p))

\* C38: an object handed to a sharedptr is deleted once and no more, it is
\* deleted as soon as no live sharedptr refers to it, and never before; the
\* program never touches a deleted counter.
C38_DeletedOnceByLastOwner ==
    /\ obj # "crashed"
    /\ obj = "sharedptr" =>
          \A r \in 1..Len(resources) :
             /\ resources[r].frees <= 1
             /\ (resources[r].frees = 1) = (Owners(r) = {})
             /\ \A q \in Owners(r) :
                   /\ counters[ptrs[q].counter].frees = 0
                   /\ counters[ptrs[q].counter].count = Cardinality(Owners(r))

\* a copy assignment took its target from object 1, whose last owner it
\* was, to object 2: object 1 is deleted, two pointers own object 2
C38_Witness ==
    /\ obj = "sharedptr"
    /\ op.name = "copy_assign"
    /\ Len(resources) = 2
    /\ resources[1].frees = 1
    /\ resources[2].frees = 0
    /\ Cardinality(Owners(2)) = 2
    /\ ptrs[op.p].res = 2

\* the blocks on the free list
FreeBlocks ==
    Pool_free_list(pool.next, pool.free_list_, pool.pool_size_ + 1)

\* C39: with every deallocated pointer a block handed out, the free list and
\* the blocks handed out partition the pool: no block is twice on the list
\* or on it while handed out, every block is on one side, get_free_count()
\* plus the number handed out is pool_size; allocate returns a block that
\* was not handed out; allocate on an empty free list throws bad_alloc and
\* leaves the pool as it was.
C39_FreeListAndHandedOutPartition ==
    obj = "pool" =>
       /\ Len(FreeBlocks) + Cardinality(handed_out) = pool.pool_size_
       /\ {FreeBlocks[i] : i \in 1..Len(FreeBlocks)} \cup handed_out
             = 1..pool.pool_size_
       /\ {FreeBlocks[i] : i \in 1..Len(FreeBlocks)} \cap handed_out = {}
       /\ op.name = "get_free_count" =>
             ret + Cardinality(handed_out) = pool.pool_size_
       /\ (op.name = "allocate" /\ op.pre.free_list_ # nullptr) =>
             /\ ret \in 1..pool.pool_size_
             /\ ret \notin op.out
             /\ ret \in handed_out
       /\ (op.name = "allocate" /\ op.pre.free_list_ = nullptr) =>
             /\ ret = "bad_alloc"
             /\ pool = op.pre
             /\ handed_out = op.out

\* allocate has returned block 2 a second time, after it was given back,
\* while block 1, overwritten by its holder, is still handed out
C39_Witness ==
    /\ obj = "pool"
    /\ op.name = "allocate"
    /\ op.pre.free_list_ = 2
    /\ op.pre.next[2] = 3
    /\ op.out = {1}
    /\ ret = 2
    /\ handed_out = {1, 2}
    /\ pool.pool_size_ = 3
    /\ pool.free_list_ = 3
    /\ pool.next[1] = 1

====
